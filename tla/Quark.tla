-------------------------------- MODULE Quark ---------------------------------
(***************************************************************************)
(* Quarks (xos/src/xquark.c): the numbers of strings.  Whoever makes one    *)
(* holds the lock quark_global; whoever wants the string of one reads       *)
(* without it, while others write: the array, an entry of it, and the      *)
(* count, each a write of its own, in an order that readers rely on.       *)
(***************************************************************************)
EXTENDS Integers

CONSTANTS
  Thread, String, None,
  QUARK_BLOCK_SIZE  \* by how many entries the array grows

ASSUME QuarkAssumption ==
  /\ QUARK_BLOCK_SIZE \in Nat /\ QUARK_BLOCK_SIZE > 1
  /\ None \notin Thread

VARIABLES
  quark_ht,         \* the number of each string, 0 if it has none
  hashed,           \* whether the table exists
  arrays,           \* the arrays that were ever allocated, none is freed: [1 .. quarks -> ...]
  quarks,           \* which of them is quarks, 0 for NULL
  quark_seq_id,
  lock,             \* X_LOCK (quark_global): who holds it
  pc, call, result, \* what each thread does, for which call, and what it got
  strings, seq_id   \* the variables of x_quark_str

tables == <<quark_ht, hashed, arrays, quarks, quark_seq_id>>
vars == <<tables, lock, pc, call, result, strings, seq_id>>

\* The calls, as the abstract specification has them.
AsksNumber(s, make, intern) == [op |-> "number", str |-> s, make |-> make, intern |-> intern]
AsksString(q) == [op |-> "string", quark |-> q]
Silent == [op |-> "none"]

Init ==
  /\ quark_ht = [s \in String |-> 0] /\ hashed = FALSE
  /\ arrays = [k \in 1 .. 0 |-> None] /\ quarks = 0 /\ quark_seq_id = 0
  /\ lock = None
  /\ pc = [t \in Thread |-> "idle"] /\ call = [t \in Thread |-> Silent]
  /\ result = [t \in Thread |-> None]
  /\ strings = [t \in Thread |-> 0] /\ seq_id = [t \in Thread |-> 0]

At(t, where) == pc[t] = where
Go(t, where) == pc' = [pc EXCEPT ![t] = where]

Answer(t, r) ==
  /\ Go(t, "idle")
  /\ call' = [call EXCEPT ![t] = Silent]
  /\ result' = [result EXCEPT ![t] = r]

-----------------------------------------------------------------------------
(* x_quark_from, x_intern_str, x_quark_try, x_intern_str_try *)

AskNumber(t) ==
  /\ At(t, "idle")
  /\ \E s \in String, make \in BOOLEAN, intern \in BOOLEAN :
       call' = [call EXCEPT ![t] = AsksNumber(s, make, intern)]
  /\ Go(t, "lock")
  /\ result' = [result EXCEPT ![t] = None]
  /\ UNCHANGED <<tables, lock, strings, seq_id>>

\* The lock is taken and the string looked up.  A call that only tries stops
\* here, with 0 or NULL, which is entry 0.
Find(t) ==
  /\ At(t, "lock") /\ lock = None
  /\ LET c == call[t]
         q == IF hashed THEN quark_ht[c.str] ELSE 0
     IN \/ /\ q # 0
           /\ Answer(t, IF c.intern THEN arrays[quarks][q] ELSE q)
           /\ UNCHANGED lock
        \/ /\ q = 0 /\ ~ c.make
           /\ Answer(t, IF c.intern THEN None ELSE 0)
           /\ UNCHANGED lock
        \/ /\ q = 0 /\ c.make
           /\ Go(t, "grow") /\ lock' = t
           /\ UNCHANGED <<call, result>>
  /\ UNCHANGED <<tables, strings, seq_id>>

\* Mutant of Copied: the entries are not copied.
CopiedNone(q) == None

\* What entry q of a new array is: memcpy and memset.
Copied(q) == IF q < quark_seq_id THEN arrays[quarks][q] ELSE None

\* quark_new: a full array is replaced.
Grow(t) ==
  /\ At(t, "grow")
  /\ \/ /\ quark_seq_id % QUARK_BLOCK_SIZE = 0
        /\ quarks' = quarks + 1
        /\ arrays' = [k \in 1 .. quarks + 1 |->
             IF k \in 1 .. quarks THEN arrays[k]
             ELSE [q \in 0 .. quark_seq_id + QUARK_BLOCK_SIZE - 1 |-> Copied(q)]]
     \/ /\ quark_seq_id % QUARK_BLOCK_SIZE # 0
        /\ UNCHANGED <<arrays, quarks>>
  /\ Go(t, "first")
  /\ UNCHANGED <<quark_ht, hashed, quark_seq_id, lock, call, result, strings, seq_id>>

\* The first call makes the table, and passes number 0.
First(t) ==
  /\ At(t, "first")
  /\ \/ /\ ~ hashed
        /\ hashed' = TRUE /\ quark_seq_id' = quark_seq_id + 1
        /\ arrays' = [arrays EXCEPT ![quarks][quark_seq_id] = None]
     \/ hashed /\ UNCHANGED <<hashed, arrays, quark_seq_id>>
  /\ Go(t, "store")
  /\ UNCHANGED <<quark_ht, quarks, lock, call, result, strings, seq_id>>

\* Mutant of Hash: the string is not put in the table.
HashNot(t) == quark_ht

Hash(t) == [quark_ht EXCEPT ![call[t].str] = quark_seq_id]

Store(t) ==
  /\ At(t, "store")
  /\ arrays' = [arrays EXCEPT ![quarks][quark_seq_id] = call[t].str]
  /\ quark_ht' = Hash(t)
  /\ Go(t, "count")
  /\ UNCHANGED <<hashed, quarks, quark_seq_id, lock, call, result, strings, seq_id>>

\* The count admits the readers, and the lock is dropped.
Count(t) ==
  /\ At(t, "count")
  /\ quark_seq_id' = quark_seq_id + 1
  /\ lock' = None
  /\ Answer(t, IF call[t].intern THEN arrays[quarks][quark_seq_id] ELSE quark_seq_id)
  /\ UNCHANGED <<quark_ht, hashed, arrays, quarks, strings, seq_id>>

-----------------------------------------------------------------------------
(* x_quark_str of a quark that was given to someone *)

AskString(t) ==
  /\ At(t, "idle")
  /\ \E q \in 1 .. quark_seq_id - 1 : call' = [call EXCEPT ![t] = AsksString(q)]
  /\ Go(t, "array")
  /\ result' = [result EXCEPT ![t] = None]
  /\ UNCHANGED <<tables, lock, strings, seq_id>>

ReadArray(t) ==
  /\ At(t, "array")
  /\ strings' = [strings EXCEPT ![t] = quarks]
  /\ Go(t, "seq_id")
  /\ UNCHANGED <<tables, lock, call, result, seq_id>>

ReadCount(t) ==
  /\ At(t, "seq_id")
  /\ seq_id' = [seq_id EXCEPT ![t] = quark_seq_id]
  /\ Go(t, "entry")
  /\ UNCHANGED <<tables, lock, call, result, strings>>

ReadEntry(t) ==
  /\ At(t, "entry")
  /\ Answer(t, IF call[t].quark < seq_id[t] THEN arrays[strings[t]][call[t].quark] ELSE None)
  /\ strings' = [strings EXCEPT ![t] = 0]
  /\ seq_id' = [seq_id EXCEPT ![t] = 0]
  /\ UNCHANGED <<tables, lock>>

-----------------------------------------------------------------------------
Step(t) ==
  \/ AskNumber(t) \/ Find(t) \/ Grow(t) \/ First(t) \/ Store(t) \/ Count(t)
  \/ AskString(t) \/ ReadArray(t) \/ ReadCount(t) \/ ReadEntry(t)

Next == \E t \in Thread : Step(t)

Spec == Init /\ [][Next]_vars

-----------------------------------------------------------------------------
(* Properties *)

Making == {"grow", "first", "store", "count"}
Reading == {"array", "seq_id", "entry"}

TypeOK ==
  /\ quark_ht \in [String -> Nat] /\ hashed \in BOOLEAN
  /\ quarks \in Nat /\ quark_seq_id \in Nat /\ DOMAIN arrays = 1 .. quarks
  /\ lock \in Thread \cup {None}
  /\ pc \in [Thread -> {"idle", "lock"} \cup Making \cup Reading]
  /\ DOMAIN call = Thread /\ DOMAIN result = Thread
  /\ strings \in [Thread -> Nat] /\ seq_id \in [Thread -> Nat]

\* What the threads are asked, and that who makes a quark has the lock.
CallsKept ==
  \A t \in Thread :
    /\ pc[t] \in Making <=> lock = t
    /\ pc[t] = "idle" => call[t] = Silent
    /\ pc[t] \in {"lock"} \cup Making =>
         \E s \in String, make \in BOOLEAN, intern \in BOOLEAN :
           call[t] = AsksNumber(s, make, intern) /\ (pc[t] \in Making => make)
    /\ pc[t] \in {"grow", "first", "store"} => quark_ht[call[t].str] = 0
    /\ pc[t] = "count" => /\ quark_ht[call[t].str] = quark_seq_id
                          /\ arrays[quarks][quark_seq_id] = call[t].str
    /\ pc[t] \in Reading => \E q \in 1 .. quark_seq_id - 1 : call[t] = AsksString(q)

\* The present array has whole blocks, and the room that a quark needs.
ArrayFits ==
  /\ hashed <=> quark_seq_id > 0
  /\ quarks = 0 => quark_seq_id = 0
  /\ quarks > 0 => \E n \in 1 .. quark_seq_id + 1 :
       /\ DOMAIN arrays[quarks] = 0 .. n * QUARK_BLOCK_SIZE - 1
       /\ quark_seq_id <= n * QUARK_BLOCK_SIZE
  /\ \A t \in Thread :
       /\ pc[t] \in {"first", "store", "count"} =>
            quarks > 0 /\ quark_seq_id \in DOMAIN arrays[quarks]
       /\ pc[t] \in {"store", "count"} => hashed

\* A reader that has picked its array, which may have been replaced since,
\* finds the entry of its quark within it, the same as in the present one.
ReadersAgree ==
  \A t \in Thread :
    /\ pc[t] \in {"seq_id", "entry"} =>
         /\ strings[t] \in 1 .. quarks
         /\ call[t].quark \in DOMAIN arrays[strings[t]]
         /\ arrays[strings[t]][call[t].quark] = arrays[quarks][call[t].quark]
    /\ pc[t] = "entry" => call[t].quark < seq_id[t]

\* Every number that is given out has its string, the table and the array say
\* the same, and no string has two.
TablesAgree ==
  /\ \A q \in 1 .. quark_seq_id - 1 :
       arrays[quarks][q] \in String /\ quark_ht[arrays[quarks][q]] = q
  /\ \A s \in String : quark_ht[s] # 0 =>
       \/ quark_ht[s] < quark_seq_id /\ arrays[quarks][quark_ht[s]] = s
       \/ \E t \in Thread : pc[t] = "count" /\ call[t].str = s

\* Quarks are exact: what is looked up without the lock is what the thread
\* with the lock wrote, and each number stands for one string.
QuarksExact == TypeOK /\ CallsKept /\ ArrayFits /\ ReadersAgree /\ TablesAgree

\* The lock, the arrays and the count implement the promise, whatever order
\* the writes of one thread and the reads of another come in.
names == [q \in 1 .. quark_seq_id - 1 |-> arrays[quarks][q]]

Interned == INSTANCE Intern
Implements == Interned!Spec
=============================================================================
