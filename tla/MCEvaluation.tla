---------------------------- MODULE MCEvaluation ----------------------------
(* Instances of Evaluation for TLC: what the events say, what the other engines find. *)
EXTENDS Evaluation, TLC

CONSTANTS login, verified, withdraw, stranger, u1, u2, k1, t1, t2

Default == [type |-> "player.login", user |-> u1, trustKey |-> k1, grantKey |-> k1,
            stepUp |-> "none", at |-> 0, sources |-> {"async"}]

\* A login; one with a verification of instant 1, which no one can present at instant 0;
\* a withdrawal; and another user's login, all from the same device.
Sessions ==
  [e \in Event |->
     CASE e = login    -> Default
       [] e = verified -> [Default EXCEPT !.stepUp = "verified", !.at = 1,
                                           !.sources = {"sync"}]
       [] e = withdraw -> [Default EXCEPT !.type = "payment.withdraw"]
       [] e = stranger -> [Default EXCEPT !.user = u2]]

\* The other engines may take the stranger for a bot; of the others they find nothing.
Nothing == [score |-> 0, signals |-> {}]
Found ==
  [e \in Event |->
     IF e = stranger THEN {Nothing, [score |-> 70, signals |-> {"bot_user_agent"}]} ELSE {Nothing}]

Repeated(repeated) == [e \in Event |-> IF e \in repeated THEN 2 ELSE 1]
VerifiedTwice == Repeated({verified})
LoginTwice == Repeated({login})

OneCritical == {"bot_user_agent"}

LoginOnly == {"player.login"}

Symmetry == Permutations(Thread)
=============================================================================
