--------------------------- MODULE MCKnowledgeFollower ---------------------------
(* A question of alice, its retraction and its correction by alice, and a   *)
(* retraction of bob that the service must refuse.  The correction writes   *)
(* its nonce as a decimal.                                                  *)
EXTENDS KnowledgeFollower

CONSTANTS question, retraction, correction, forgery

Entry(actor, nonce, created_at, type, kind, links) ==
    [actor |-> actor, nonce |-> nonce, decimal |-> FALSE,
     created_at |-> created_at, size |-> 1, type |-> type, kind |-> kind, links |-> links]

Link1(relation) == {[relation |-> relation, target |-> question]}

MCevent ==
    [e \in Events |->
        CASE e = question ->
                Entry("alice", 2, 1, "knowledge.publish", "question", {})
          [] e = retraction ->
                Entry("alice", 3, 1, "knowledge.retract", "none",
                      Link1("knowledge.retract"))
          [] e = correction ->
                [Entry("alice", 3, 2, "knowledge.publish", "question",
                       Link1("supersedes")) EXCEPT !.decimal = TRUE]
          [] e = forgery ->
                Entry("bob", 3, 1, "knowledge.retract", "none",
                      Link1("knowledge.retract"))]
=============================================================================
