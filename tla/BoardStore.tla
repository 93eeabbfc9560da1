----------------------------- MODULE BoardStore -----------------------------
(***************************************************************************)
(* What the collection of whiteboards promises to whoever draws on them,   *)
(* with no connection, handler or lock: the life of a whiteboard document. *)
(* A board is created once by its owner, becomes shared for good when the  *)
(* owner opens a session on it, only a shared board has active users or is *)
(* deleted, and a deleted board never comes back.                          *)
(***************************************************************************)
EXTENDS Naturals

CONSTANTS
  Boards,       \* the object ids of whiteboards
  Elements,     \* what may be drawn
  InitialDocs   \* the documents a board may start from

VARIABLE docs     \* by board: its state, its owner uid, whether it is
                  \* shared, its active users and its elements

NoDoc == [state |-> "unborn", uid |-> 0, shared |-> FALSE,
          active |-> {}, elements |-> {}]

Init == docs \in [Boards -> InitialDocs]

Become(b, d) == docs' = [docs EXCEPT ![b] = d]

Create(b) ==
  /\ docs[b].state = "unborn"
  /\ docs'[b].uid \in Nat
  /\ Become(b, [NoDoc EXCEPT !.state = "stored", !.uid = docs'[b].uid])

\* Opening a session resets the active users to the owner alone.
Share(b) ==
  /\ docs[b].state = "stored"
  /\ Become(b, [docs[b] EXCEPT !.shared = TRUE, !.active = {docs[b].uid}])

Join(b) ==
  /\ docs[b].state = "stored" /\ docs[b].shared
  /\ \E u \in docs'[b].active :
       u \in Nat /\ Become(b, [docs[b] EXCEPT !.active = @ \cup {u}])

Leave(b) ==
  /\ docs[b].state = "stored" /\ docs[b].shared
  /\ \E u \in docs[b].active :
       Become(b, [docs[b] EXCEPT !.active = @ \ {u}])

Draw(b) ==
  /\ docs[b].state = "stored"
  /\ \E e \in Elements : Become(b, [docs[b] EXCEPT !.elements = @ \cup {e}])

Redraw(b) ==
  /\ docs[b].state = "stored" /\ docs[b].shared
  /\ \E o, e \in Elements :
       Become(b, [docs[b] EXCEPT !.elements = (@ \ {o}) \cup {e}])

Delete(b) ==
  /\ docs[b].state = "stored" /\ docs[b].shared
  /\ Become(b, [docs[b] EXCEPT !.state = "deleted"])

Next ==
  \E b \in Boards :
    \/ Create(b) \/ Share(b) \/ Join(b) \/ Leave(b)
    \/ Draw(b) \/ Redraw(b) \/ Delete(b)

Spec == Init /\ [][Next]_docs
=============================================================================
