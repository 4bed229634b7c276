----------------------------- MODULE MCConversation -----------------------------
(* Two businesses of one name, an employee flow with a photo, a reward     *)
(* picked from a list, and a command without a flow.                       *)
EXTENDS Conversation, TLC

CONSTANTS b1, b2, p1, p2

MCSymmetry == Permutations({p1, p2})

MCNameOf == [b \in Businesses |-> "cafe"]

(* An employee of b1 at most. *)
MCStaffStates == [b \in Businesses |->
    IF b = b1 THEN {"none", "active", "inactive"} ELSE {"none"}]

MCSteps == [load |-> <<"code", "photo">>, redeem |-> <<"confirm">>, check |-> <<>>]

MCPreset == [load |-> {}, redeem |-> {"reward_id"}, check |-> {}]

MCInbox == {[kind |-> "image"], [kind |-> "leave"], [kind |-> "switch"],
            [kind |-> "business", business |-> b1],
            [kind |-> "joinId", business |-> b1],
            [kind |-> "joinName", name |-> "cafe"]}
           \cup [kind : {"command"}, command : Commands]

=============================================================================
