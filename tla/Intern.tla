-------------------------------- MODULE Intern --------------------------------
(***************************************************************************)
(* What xos/src/xquark.c promises: strings get numbers from 1 on, each     *)
(* string one and for ever, whoever asks, and everyone who has a number    *)
(* gets its string.                                                        *)
(***************************************************************************)
EXTENDS Naturals, Sequences

CONSTANTS Thread, String, None

VARIABLES
  names,            \* the strings in the order of their numbers
  call,             \* what each thread asks, Silent if nothing
  result            \* and the last answer it got

vars == <<names, call, result>>

\* x_quark_from and x_intern_str when it may make a quark, x_quark_try and
\* x_intern_str_try when not, x_quark_str.
AsksNumber(s, make, intern) == [op |-> "number", str |-> s, make |-> make, intern |-> intern]
AsksString(q) == [op |-> "string", quark |-> q]
Silent == [op |-> "none"]

\* The calls that may be made when n numbers are known.
Calls(n) ==
  {AsksNumber(s, make, intern) : s \in String, make \in BOOLEAN, intern \in BOOLEAN}
  \cup {AsksString(q) : q \in 1 .. n}

Init ==
  /\ names = << >>
  /\ call = [t \in Thread |-> Silent]
  /\ result = [t \in Thread |-> None]

Ask(t) ==
  /\ call[t] = Silent
  /\ \E c \in Calls(Len(names)) : call' = [call EXCEPT ![t] = c]
  /\ result' = [result EXCEPT ![t] = None]
  /\ UNCHANGED names

Answer(t, r) ==
  /\ result' = [result EXCEPT ![t] = r]
  /\ call' = [call EXCEPT ![t] = Silent]

Old(t) ==
  /\ call[t].op = "number"
  /\ \E q \in 1 .. Len(names) :
       names[q] = call[t].str /\ Answer(t, IF call[t].intern THEN names[q] ELSE q)
  /\ UNCHANGED names

Unknown(t) == \A q \in 1 .. Len(names) : names[q] # call[t].str

New(t) ==
  /\ call[t].op = "number" /\ call[t].make
  /\ Unknown(t)
  /\ names' = Append(names, call[t].str)
  /\ Answer(t, IF call[t].intern THEN call[t].str ELSE Len(names) + 1)

Not(t) ==
  /\ call[t].op = "number" /\ ~ call[t].make
  /\ Unknown(t)
  /\ Answer(t, IF call[t].intern THEN None ELSE 0)
  /\ UNCHANGED names

Tell(t) ==
  /\ call[t].op = "string"
  /\ Answer(t, names[call[t].quark])
  /\ UNCHANGED names

Next == \E t \in Thread : Ask(t) \/ Old(t) \/ New(t) \/ Not(t) \/ Tell(t)

Spec == Init /\ [][Next]_vars
=============================================================================
