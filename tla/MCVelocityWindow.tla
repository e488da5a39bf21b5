-------------------------- MODULE MCVelocityWindow --------------------------
(* MCVelocity with a history: when each win was counted, and what was reported so far. *)
EXTENDS MCVelocity

VARIABLES
  counted,   \* the wins counted so far: <<instant, number within its window>>
  reported   \* every crossing found so far

Burst == <<"wallet_win_burst", u1>>

WindowInit == Init /\ counted = {} /\ reported = {}

WindowNext ==
  /\ Next
  /\ reported' = reported \union UNION {th'[t].owes : t \in Thread}
  /\ counted' = IF store'[Burst].n > store[Burst].n
                THEN counted \union {<<now, store'[Burst].n>>} ELSE counted

WindowSpec == WindowInit /\ [][WindowNext]_<<vars, counted, reported>>

\* The console says of the burst counters: "Rolling time window for all burst counters", "window
\* slides on each event" (admin-i18n-fields.js:232).  As many wins within one window as the critical
\* threshold are reported as critical, once no evaluation is under way and none raised.
BurstsNoticed ==
  (faults = 0 /\ \A t \in Thread : At(t, "idle"))
    => (Cardinality({c \in counted : c[1] > now - BurstWindow}) >= Tiers(Burst)[1]
          => <<Burst, 1>> \in reported)
=============================================================================
