----------------------------- MODULE MCVelocity -----------------------------
(* An instance of VelocityStore for TLC: thresholds of one to three, what four events say. *)
EXTENDS VelocityStore, TLC

CONSTANTS loginA, loginB, bet, win, u1, u2, ip1, t1, t2

Sparse == [user |-> u1, ip |-> None, email |-> None, domain |-> None,
           fingerprint |-> None, method |-> None, type |-> "player.login"]

\* Logins of two users from one address; a bet and a win of the first.
Events ==
  [e \in Event |->
     CASE e = loginA -> [Sparse EXCEPT !.ip = ip1]
       [] e = loginB -> [Sparse EXCEPT !.user = u2, !.ip = ip1]
       [] e = bet    -> [Sparse EXCEPT !.type = "wallet.bet"]
       [] e = win    -> [Sparse EXCEPT !.type = "wallet.win"]]

Thresholds ==
  [ip_all_high |-> 3, ip_all_medium |-> 2,
   login_ip_critical |-> 3, login_ip_high |-> 2, login_ip_medium |-> 1,
   login_ip_distinct_users_critical |-> 3, login_ip_distinct_users_high |-> 2,
   login_user_critical |-> 3, login_user_high |-> 2, login_user_medium |-> 2,
   signup_ip_critical |-> 2, signup_domain_critical |-> 2,
   signup_fingerprint_critical |-> 3, signup_fingerprint_high |-> 2,
   fingerprint_distinct_users_critical |-> 2, fingerprint_distinct_users_high |-> 2,
   method_users_critical |-> 3, method_users_high |-> 2, method_users_medium |-> 2,
   deposit_user_critical |-> 3, deposit_user_high |-> 2, deposit_user_medium |-> 1,
   withdrawal_user_critical |-> 3, withdrawal_user_high |-> 2, withdrawal_user_medium |-> 1,
   withdrawal_ip_high |-> 2,
   game_bet_critical |-> 3, game_bet_high |-> 2, game_bet_medium |-> 1,
   wallet_bet_critical |-> 3, wallet_bet_high |-> 2, wallet_bet_medium |-> 1,
   wallet_win_critical |-> 3, wallet_win_high |-> 2, wallet_win_medium |-> 1,
   login_failed_ip_critical |-> 3, login_failed_ip_high |-> 2, login_failed_ip_medium |-> 1,
   login_failed_user_critical |-> 3, login_failed_user_high |-> 2,
   signup_failed_ip_critical |-> 3, signup_failed_ip_high |-> 2]

Symmetry == Permutations(Thread)
=============================================================================
