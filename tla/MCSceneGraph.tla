---------------------------- MODULE MCSceneGraph ----------------------------
(* SceneGraph with a root, a node below it, and a node with a movable that is *)
(* moved between the two.                                                     *)
EXTENDS SceneGraph, TLC

CONSTANTS root, a, b

MCParents == (root :> {}) @@ (a :> {root}) @@ (b :> {root, a})
=============================================================================
