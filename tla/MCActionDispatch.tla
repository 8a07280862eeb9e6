-------------------------- MODULE MCActionDispatch --------------------------
(***************************************************************************)
(* Instances of ActionDispatch for TLC.                                    *)
(***************************************************************************)
EXTENDS ActionDispatch, TLC

CONSTANTS t1, t2, t3, ann, bob, cyd

R(type, key, actor, targets, to, expects) ==
  [type |-> type, key |-> key, actor |-> actor, targets |-> targets,
   to |-> to, expects |-> expects]

MCState == {"draft", "review", "released"}
MCTransition == {[type |-> "submit", from |-> "draft", to |-> "review"],
                 [type |-> "decide", from |-> "review", to |-> "released"],
                 [type |-> "decide", from |-> "review", to |-> "draft"]}
MCCreator == [o \in {1, 2} |-> IF o = 1 THEN ann ELSE bob]

(* Overlapping targets: two submissions of records 1 and 2, one of them    *)
(* bound to the version its caller read, and a decision that sends both    *)
(* back to draft (ambiguous without payload.to_state).                     *)
Overlap ==
  t1 :> <<R("submit", "k1", ann, {1, 2}, None, 1)>> @@
  t2 :> <<R("submit", "k2", bob, {1, 2}, None, None)>> @@
  t3 :> <<R("decide", "k3", cyd, {1, 2}, "draft", None)>>

(* Two callers import one file: new evidence under one key, then, in the   *)
(* same transaction, a revision of an existing fragment.  The second of    *)
(* them reuses, for its revision, the key of a third, standalone act on    *)
(* that fragment, and is refused if that act came first; otherwise it goes *)
(* on to a decision as the fragment's creator, which separation of duty    *)
(* refuses, with everything its transaction did before.                    *)
Composed ==
  t1 :> <<R("add", "k1", ann, {}, None, None),
          R("submit", "k2", ann, {1}, None, None)>> @@
  t2 :> <<R("add", "k1", ann, {}, None, None),
          R("submit", "k3", ann, {1}, None, None),
          R("decide", "k2", ann, {1}, "released", None)>> @@
  t3 :> <<R("submit", "k3", bob, {1}, None, None)>>
=============================================================================
