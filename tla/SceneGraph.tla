----------------------------- MODULE SceneGraph -----------------------------
(***************************************************************************)
(* The scene graph (gfw/src/gnode.c, gscenenode.c, gscene.c): nodes whose  *)
(* world transforms and bounding boxes are computed only when a change has *)
(* marked them, and only where a change has told the ancestors so.         *)
(*                                                                         *)
(* A transform or a box is reduced to whether it is right: fresh are the   *)
(* nodes whose derived transform is that of their place, and box[n] are    *)
(* the nodes whose movable object the box of n covers where it now is.  A  *)
(* node holds at most one movable.  The matrices g_node_mat4 and           *)
(* g_node_offseted keep, each with a mark of its own, are left out.        *)
(***************************************************************************)
EXTENDS Integers, Sequences

CONSTANTS
  Node,
  Root,             \* the root node of the scene
  Mobile,           \* the nodes that may hold a movable
  Later,            \* the nodes that are marked later, through the queue
  Parents,          \* the nodes that each node may be attached to
  NoNode

ASSUME GraphAssumption ==
  /\ Root \in Node /\ Mobile \subseteq Node /\ Later \subseteq Node /\ NoNode \notin Node
  /\ Parents \in [Node -> SUBSET Node] /\ Parents[Root] = {}

VARIABLES
  parent,           \* gNode.parent
  first,            \* entry 0 of the arrays children
  children,         \* what is in these arrays, nodes that have left included
  waiting,          \* what is in the arrays dirty_children
  parent_dirty, child_dirty, parent_notified,   \* the nodes marked so
  bounding_dirty,   \* the scene nodes marked so
  queue,            \* _queued_nodes, the nodes whose turn has not come
  rendering,        \* g_scene_render is going through the queue
  movables,         \* the nodes that hold a movable
  fresh, box        \* what is right, see above

tree  == <<parent, first, children>>
marks == <<parent_dirty, child_dirty, parent_notified, waiting>>
right == <<fresh, box>>
graph_vars == <<tree, marks, right, bounding_dirty, queue, rendering, movables>>

-----------------------------------------------------------------------------
(* The tree, under the parents up *)

\* What is reached from A in steps from k to the members of to[k]: the least
\* set that has A and out of which no step leads.
Reached(to, A) ==
  LET Closed == {T \in {A \cup X : X \in SUBSET (Node \ A)} : \A k \in T : to[k] \subseteq T}
  IN {m \in Node : \A T \in Closed : m \in T}

\* Up from n under the parents up, as far as S goes and one more.
Through(up, S, n) ==
  Reached([k \in Node |-> IF k \in S THEN {up[k]} \ {NoNode} ELSE {}], {n})

\* A node and its ancestors.
Line(n) == Through(parent, Node, n)

Below(n) == Reached([k \in Node |-> {m \in Node : parent[m] = k}], {n})

\* The nodes from which an update goes down to n.
Above(n) ==
  Reached([m \in Node |-> {q \in Node : m \in children[q] \cup waiting[q]}], {n})

-----------------------------------------------------------------------------
(* What a change tells the ancestors *)

\* request_update: n calls its parent, and so on up to a node that has told its
\* own parent already, or that updates all its children anyway.
Callers(up, n, again) ==
  LET calling == {k \in Node : up[k] # NoNode /\ (k \notin parent_notified \/ again)
                                /\ (k = n \/ k \notin child_dirty)}
  IN Through(up, calling, n) \cap calling

\* notify_bounding_diry, on "changed": up to a node that is marked already.
Bounds(up, n) == Through(up, Node \ bounding_dirty, n)

\* need_update under the parents up, after the transforms of S were computed.
Mark(up, n, again, S) ==
  \E callers \in {Callers(up, n, again)} :
  /\ parent_dirty' = (parent_dirty \ S) \cup {n}
  /\ child_dirty' = child_dirty \cup {n}
  /\ parent_notified' = parent_notified \cup callers
  /\ waiting' = [p \in Node |->
       IF p = n THEN {} ELSE IF p \in child_dirty THEN waiting[p]
       ELSE waiting[p] \cup {m \in callers : up[m] = p}]

\* need_update and the handler of the "changed" that it emits.
NeedUpdate(up, n, again, S) ==
  /\ Mark(up, n, again, S)
  /\ bounding_dirty' = bounding_dirty \cup Bounds(up, n)

-----------------------------------------------------------------------------
(* What is computed, and when *)

\* g_node_xform of x computes x and the ancestors on which x waits.
Pulled(x) == Through(parent, parent_dirty, x) \cap parent_dirty

\* The transforms that are right when update_from_parent has gone down S.
FreshAfter(S) == (fresh \ S) \cup {n \in S : Through(parent, S, n) \ S \subseteq fresh}

\* What is below n is out of place, after the transforms of S were computed.
Displace(n, S) ==
  \E below \in {Below(n)} :
    /\ fresh' = FreshAfter(S) \ below
    /\ box' = [m \in Node |-> box[m] \ below]

\* The nodes whose box is computed when the boxes of V are asked for.
Bounded(V) ==
  Reached([k \in Node |-> children[k] \cap bounding_dirty], V \cap bounding_dirty)

\* snode_bounding of B, from the bottom up, with the transforms of good right.
BoxAfter(B, good) ==
  [n \in Node |->
     IF n \notin B THEN box[n]
     ELSE UNION {IF m \in B THEN {m} \cap movables \cap good ELSE box[m] :
                 m \in Reached([k \in Node |-> IF k \in B THEN children[k] ELSE {}], {n})}]

\* node_update from n down, with update_children: the nodes it visits with
\* parent_chagned FALSE, on the way from dirty child to dirty child.
Plain(n) ==
  Reached([k \in Node |-> IF k \in child_dirty THEN {} ELSE waiting[k]], {n})

\* Mutant of Changed: parent_chagned is not passed on.
ChangedOnce(n) == UNION {children[k] : k \in Plain(n) \cap child_dirty}

\* The nodes it visits with parent_chagned TRUE: all below one with child_dirty.
Changed(n) ==
  Reached(children, UNION {children[k] : k \in Plain(n) \cap child_dirty})

\* The transforms and boxes that are computed when the nodes of U compute
\* theirs, and those of B their boxes; both ask others for what they rest on.
Compute(U, B) ==
  \E S \in {U \cup UNION {Pulled(x) : x \in (B \cap movables) \cup
                           ({parent[m] : m \in U} \ {NoNode})}} :
    /\ fresh' = FreshAfter(S)
    /\ parent_dirty' = parent_dirty \ S
    /\ box' = BoxAfter(B, fresh')

\* Mutant of UpdateFrom: parent_notified is not reset.
UpdateFromNotified(n, update_children) ==
  \E T \in {IF update_children THEN Changed(n) ELSE {}} :
  \E V \in {T \cup (IF update_children THEN Plain(n) ELSE {n})} :
    /\ UNCHANGED parent_notified
    /\ bounding_dirty' = bounding_dirty \ V
    /\ child_dirty' = IF update_children THEN child_dirty \ V ELSE child_dirty
    /\ waiting' = [p \in Node |-> IF p \in V /\ update_children THEN {} ELSE waiting[p]]
    /\ \E B \in {Bounded(V)} : Compute(T \cup (V \cap parent_dirty), B)

\* g_node_update of n (snode_update, node_update).
UpdateFrom(n, update_children) ==
  \E T \in {IF update_children THEN Changed(n) ELSE {}} :
  \E V \in {T \cup (IF update_children THEN Plain(n) ELSE {n})} :
    /\ parent_notified' = parent_notified \ V
    /\ bounding_dirty' = bounding_dirty \ V
    /\ child_dirty' = IF update_children THEN child_dirty \ V ELSE child_dirty
    /\ waiting' = [p \in Node |-> IF p \in V /\ update_children THEN {} ELSE waiting[p]]
    /\ \E B \in {Bounded(V)} : Compute(T \cup (V \cap parent_dirty), B)

-----------------------------------------------------------------------------
(* Operations between frames *)

GraphInit ==
  /\ parent = [n \in Node |-> NoNode]
  /\ first = [n \in Node |-> NoNode]
  /\ children = [n \in Node |-> {}] /\ waiting = [n \in Node |-> {}]
  /\ parent_dirty = Node
  /\ child_dirty = {} /\ parent_notified = {} /\ bounding_dirty = {}
  /\ queue = << >> /\ rendering = FALSE
  /\ movables = {}
  /\ fresh = {} /\ box = [n \in Node |-> {}]

\* Mutant of Attach: the first child of a node is not put into its array.
AttachFirst(n, p) ==
  /\ ~ rendering
  /\ p \in Parents[n] /\ parent[n] = NoNode
  /\ n \notin Line(p) /\ n \notin Above(p)
  /\ parent' = [parent EXCEPT ![n] = p]
  /\ first' = [first EXCEPT ![p] = IF @ = NoNode THEN n ELSE @]
  /\ children' = [children EXCEPT ![p] = IF first[p] = NoNode THEN @ ELSE @ \cup {n}]
  /\ Displace(n, {})
  /\ NeedUpdate([parent EXCEPT ![n] = p], n, FALSE, {})
  /\ UNCHANGED <<queue, rendering, movables>>

\* g_node_attach.  The caller builds no circle: p is not under n, nor in the
\* arrays under n.
Attach(n, p) ==
  /\ ~ rendering
  /\ p \in Parents[n] /\ parent[n] = NoNode
  /\ n \notin Line(p) /\ n \notin Above(p)
  /\ parent' = [parent EXCEPT ![n] = p]
  /\ first' = [first EXCEPT ![p] = IF @ = NoNode THEN n ELSE @]
  /\ children' = [children EXCEPT ![p] = @ \cup {n}]
  /\ Displace(n, {})
  /\ NeedUpdate([parent EXCEPT ![n] = p], n, FALSE, {})
  /\ UNCHANGED <<queue, rendering, movables>>

\* g_node_detach.  x_ptr_array_remove_data tests the index it finds with "> 0":
\* entry 0 stays.
Detach(n) ==
  /\ ~ rendering
  /\ parent[n] # NoNode
  /\ parent' = [parent EXCEPT ![n] = NoNode]
  /\ children' = [children EXCEPT ![parent[n]] = IF n = first[parent[n]] THEN @ ELSE @ \ {n}]
  /\ Displace(n, {})
  /\ NeedUpdate([parent EXCEPT ![n] = NoNode], n, FALSE, {})
  /\ UNCHANGED <<first, queue, rendering, movables>>

\* g_node_move, _rotate, _scale, _affine, _place, _face, _restore: the local
\* transform changes; in some spaces the world transform of x is read for it.
Move(n, x) ==
  /\ ~ rendering
  /\ x \in {n, parent[n], NoNode}
  /\ \E S \in {IF x = NoNode THEN {} ELSE Pulled(x)} :
     Displace(n, S) /\ NeedUpdate(parent, n, FALSE, S)
  /\ UNCHANGED <<tree, queue, rendering, movables>>

\* g_node_dirty at once.
Dirty(n, notify_parent) ==
  /\ ~ rendering
  /\ NeedUpdate(parent, n, notify_parent, {})
  /\ UNCHANGED <<tree, right, queue, rendering, movables>>

\* g_node_dirty later (queued_dirty: n is in the queue); also called by the
\* handlers of "changed" while the queue is gone through.
DirtyLater(n) ==
  /\ n \in Later
  /\ \A i \in 1 .. Len(queue) : queue[i] # n
  /\ queue' = Append(queue, n)
  /\ UNCHANGED <<tree, marks, right, bounding_dirty, rendering, movables>>

\* g_node_undirty: out of dirty_children, unless it is entry 0, and so on up
\* from a node that has none.
Undirty(n) ==
  LET bare == {k \in Node : k = n \/ (parent[k] # NoNode /\ k \notin child_dirty
                                     /\ waiting[k] = {})}
      undone == Through(parent, bare, n) \cap bare
  IN
  /\ ~ rendering /\ parent[n] # NoNode
  /\ \E out \in SUBSET {m \in undone : waiting[parent[m]] # {m}} :
       waiting' = [p \in Node |-> waiting[p] \ {m \in out : parent[m] = p}]
  /\ parent_notified' = parent_notified \ (undone \ {n})
  /\ UNCHANGED <<tree, parent_dirty, child_dirty, right, bounding_dirty, queue, rendering,
                 movables>>

\* g_node_xform.
Xform(n) ==
  /\ ~ rendering
  /\ n \in parent_dirty
  /\ fresh' = FreshAfter(Pulled(n))
  /\ parent_dirty' = parent_dirty \ Pulled(n)
  /\ UNCHANGED <<tree, child_dirty, parent_notified, waiting, box, bounding_dirty,
                 queue, rendering, movables>>

\* g_node_update, called by the program.
Update(n, update_children) ==
  /\ ~ rendering
  /\ UpdateFrom(n, update_children)
  /\ UNCHANGED <<tree, queue, rendering, movables>>

-----------------------------------------------------------------------------
(* Movables and boxes *)

\* g_scene_node_attach: the box is marked, of this node alone.
AttachMovable(n) ==
  /\ ~ rendering
  /\ n \in Mobile \ movables
  /\ movables' = movables \cup {n}
  /\ bounding_dirty' = bounding_dirty \cup {n}
  /\ UNCHANGED <<tree, marks, right, queue, rendering>>

\* g_scene_node_detach: the box is marked before g_node_dirty is called, whose
\* "changed" therefore marks no ancestor.
DetachMovable(n) ==
  /\ ~ rendering
  /\ n \in movables
  /\ movables' = movables \ {n}
  /\ Mark(parent, n, FALSE, {})
  /\ bounding_dirty' = bounding_dirty \cup {n}
  /\ box' = [m \in Node |-> box[m] \ {n}]
  /\ UNCHANGED <<tree, fresh, queue, rendering>>

\* "resize" of the movable, connected to notify_bounding_diry.
Resize(n) ==
  /\ ~ rendering
  /\ n \in movables
  /\ bounding_dirty' = bounding_dirty \cup Bounds(parent, n)
  /\ box' = [m \in Node |-> box[m] \ {n}]
  /\ UNCHANGED <<tree, marks, fresh, queue, rendering, movables>>

\* g_scene_node_wbbox: the boxes stay marked.
Box(n) ==
  /\ ~ rendering
  /\ n \in bounding_dirty
  /\ \E B \in {Bounded({n})} : Compute({}, B)
  /\ UNCHANGED <<tree, child_dirty, parent_notified, waiting, bounding_dirty,
                 queue, rendering, movables>>

-----------------------------------------------------------------------------
(* A frame: g_scene_render *)

\* _g_process_queued_nodes, the next node; the queue may grow meanwhile.
ProcessQueued ==
  /\ queue # << >>
  /\ NeedUpdate(parent, Head(queue), TRUE, {})
  /\ queue' = Tail(queue) /\ rendering' = TRUE
  /\ UNCHANGED <<tree, right, movables>>

\* The queue has been gone through: scene_update goes down from the root.
FinishFrame ==
  /\ queue = << >>
  /\ rendering' = FALSE
  /\ UNCHANGED <<tree, queue, movables>>
  /\ UpdateFrom(Root, TRUE)

GraphNext ==
  \/ \E n \in Node :
       \/ \E p \in Node : Attach(n, p)
       \/ \E x \in Node \cup {NoNode} : Move(n, x)
       \/ Detach(n) \/ DirtyLater(n) \/ Undirty(n) \/ Xform(n)
       \/ \E b \in BOOLEAN : Dirty(n, b) \/ Update(n, b)
       \/ AttachMovable(n) \/ DetachMovable(n) \/ Resize(n) \/ Box(n)
  \/ ProcessQueued \/ FinishFrame

GraphSpec == GraphInit /\ [][GraphNext]_graph_vars

-----------------------------------------------------------------------------
(* Properties *)

\* n waits for an update, or believes that it has told its parent so, and its
\* parent will not come to it.
Unheard(n) ==
  /\ n \in parent_dirty \cup child_dirty \cup parent_notified \/ waiting[n] # {}
  /\ parent[n] # NoNode
  /\ parent[n] \notin child_dirty /\ n \notin waiting[parent[n]]

GraphTypeOK ==
  /\ parent \in [Node -> Node \cup {NoNode}]
  /\ first \in [Node -> Node \cup {NoNode}]
  /\ children \in [Node -> SUBSET Node] /\ waiting \in [Node -> SUBSET Node]
  /\ UNION {parent_dirty, child_dirty, parent_notified, bounding_dirty, movables,
            fresh} \subseteq Node
  /\ box \in [Node -> SUBSET Node]
  /\ queue \in Seq(Node) /\ rendering \in BOOLEAN

\* Type correctness, and a child is in its parent's array: an update of all
\* the children misses none, whatever x_ptr_array_remove_data leaves behind.
ChildrenListed ==
  /\ GraphTypeOK
  /\ \A n \in Node : parent[n] # NoNode => n \in children[parent[n]]

\* After a frame the transforms of the scene are right: the marks have led the
\* update to every change.  Only a node that is unheard, and what is below it,
\* may have been left out.
FrameIsRight ==
  [][FinishFrame =>
       \A n \in Below(Root) : (\A m \in Line(n) : ~ Unheard(m)) => n \in fresh']_graph_vars

\* Nodes become unheard only as they are attached to another parent while they wait
\* for an update, or when an update is taken back: no order of changes, queued
\* changes, updates of parts of the tree and frames loses one.
HeardUnlessMoved ==
  [][\A n \in Node : ~ Unheard(n) /\ Unheard(n)' =>
       \/ parent[n] = NoNode /\ n \in parent_notified
       \/ \E m \in Node : Undirty(m)]_graph_vars

\* What g_scene_node_wbbox is said to return, when the scene has just been
\* updated: the entire box, with all that is below the node.
BoxIsEntire ==
  [][FinishFrame =>
       \A n \in Below(Root) : (\A m \in Node : ~ Unheard(m)) =>
         movables \cap Below(n) \subseteq box'[n]]_graph_vars

-----------------------------------------------------------------------------
(* The inductive invariant *)

\* A transform that is not right is marked, or a node above is to update all
\* that is below it.
Told ==
  \A n \in Node \ fresh :
    \/ n \in parent_dirty
    \/ parent[n] # NoNode /\ Line(parent[n]) \cap child_dirty # {}

GraphInv == ChildrenListed /\ parent[Root] = NoNode /\ Told
=============================================================================
