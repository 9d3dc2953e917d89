----------------------------- MODULE MCChannels -----------------------------
(* Instances of Channels: one bot, which does not allow every user who     *)
(* writes to it, or two bots that share their users.                       *)
EXTENDS Channels

CONSTANTS r1, r2, alice, bob, bot, other

OneBot == {bot}
TwoBots == {bot, other}
TwoRequests == {r1, r2}
OneRequest == {r1}
OneUser == {alice}
TwoUsers == {alice, bob}
MCSids == Requests \union Users
MCTurns == {r1, r2} \union Attempts

OneInbox ==
    [b \in OneBot |-> <<[user |-> alice, what |-> "text"],
                        [user |-> bob, what |-> "text"],
                        [user |-> alice, what |-> "media"],
                        [user |-> alice, what |-> "new"]>>]
OneAllowed == [b \in OneBot |-> {alice}]

TwoInboxes ==
    [b \in TwoBots |-> <<[user |-> alice, what |-> "text"],
                         [user |-> alice, what |-> "text"]>>]
TwoAllowed == [b \in TwoBots |-> {alice}]
=============================================================================
