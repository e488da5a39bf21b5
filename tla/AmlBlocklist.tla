---------------------------- MODULE AmlBlocklist ----------------------------
(* The blocklist of sanctioned wallets and countries: rows in the database, replaced by any number *)
(* of synchronisations with the published lists, the periodic one and those of the console's       *)
(* button.  A synchronisation fetches, then deletes and inserts in one transaction; its DELETE     *)
(* sees the rows committed when it started, waits for rows another one is deleting, and skips      *)
(* those that are gone by then (READ COMMITTED).                                                   *)
EXTENDS Naturals, Sequences, FiniteSets

CONSTANTS
  Syncer,        \* synchronisations that may run at the same time
  Wallet, Country,
  Asset, AssetOf,   \* the lists of wallets, and the list of each
  MaxSyncs,
  MaxDisturbances   \* bounds: synchronisations, and changes of the lists and faults, in a run

ASSUME BlocklistAssumption ==
  /\ AssetOf \in [Wallet -> Asset] /\ Wallet \cap Country = {}
  /\ {MaxSyncs, MaxDisturbances} \subseteq Nat

VARIABLES
  published,    \* the wallets on the published lists
  entries,      \* the committed rows: what they list, and which commit made them
  syncs,        \* the synchronisations under way
  status,       \* sync_status: what the last one said; and, as history, whether it ran alone
  commits,
  stocked,      \* history: a commit has listed wallets
  listed,       \* history: wallets published ever since a commit listed them
  excused,      \* history: wallets dropped by a commit that had fetched before another one, or
                \*   without the list they are on
  syncsBegun, disturbances

blocklistVars == <<published, entries, syncs, status, commits, stocked, listed, excused,
                   syncsBegun, disturbances>>

Listable == [wallet |-> Wallet, country |-> Country]
Rows(of) == {e \in entries : e.lists \in of}
Blocked == {e.lists : e \in entries}

Disturb == disturbances < MaxDisturbances /\ disturbances' = disturbances + 1

\* crypto, countries: what the configuration it took at the start wants synchronised.  found: the
\* wallets fetched.  todo: what is still to be deleted; snap: the rows its DELETE has seen; gone:
\* the rows it has deleted.  missing, stale, alone: history.
IdleSync ==
  [pc |-> "idle", crypto |-> FALSE, countries |-> FALSE, found |-> {}, failed |-> FALSE,
   todo |-> <<>>, snap |-> {}, gone |-> {}, missing |-> {}, stale |-> FALSE, alone |-> TRUE]

Busy(s) == {t \in Syncer \ {s} : syncs[t].pc # "idle"}

-----------------------------------------------------------------------------
Publish(w) ==
  /\ Disturb
  /\ published' = IF w \in published THEN published \ {w} ELSE published \cup {w}
  /\ listed' = listed \cap published'
  /\ UNCHANGED <<entries, syncs, status, commits, stocked, excused, syncsBegun>>

\* sync_ofac_lists, or the loop's, with the configuration of the moment.
BeginSync(s, crypto, countries) ==
  /\ syncs[s].pc = "idle" /\ syncsBegun < MaxSyncs
  /\ syncsBegun' = syncsBegun + 1
  /\ syncs' = [t \in Syncer |->
                 IF t = s THEN [IdleSync EXCEPT !.pc = "fetch", !.crypto = crypto,
                                                !.countries = countries, !.alone = Busy(s) = {}]
                 ELSE [syncs[t] EXCEPT !.alone = FALSE]]
  /\ UNCHANGED <<published, entries, status, commits, stocked, listed, excused, disturbances>>

\* Mutated: rows are deleted although nothing was fetched that could replace them.
DeletedUnfetched(sync, found) ==
  (IF sync.crypto THEN <<"wallet">> ELSE <<>>) \o (IF sync.countries THEN <<"country">> ELSE <<>>)

\* Mutated: the countries, which do not change, are not deleted before they are inserted.
DeletedWallets(sync, found) == IF sync.crypto /\ found # {} THEN <<"wallet">> ELSE <<>>

\* What is deleted, in order: the wallets if some were fetched, the countries if wanted.
Deleted(sync, found) ==
  (IF sync.crypto /\ found # {} THEN <<"wallet">> ELSE <<>>)
  \o (IF sync.countries THEN <<"country">> ELSE <<>>)

Fetched(s, found, missing) ==
  syncs' = [syncs EXCEPT ![s].pc = "delete", ![s].found = found, ![s].missing = missing,
                         ![s].failed = syncs[s].crypto /\ found = {},
                         ![s].todo = Deleted(syncs[s], found)]

\* The lists are fetched one after another: one that is not there counts as empty; another error
\* or no wallet at all makes the fetch fail, with nothing fetched.
Fetch(s) ==
  /\ syncs[s].pc = "fetch"
  /\ IF syncs[s].crypto
     THEN \/ \E missing \in SUBSET Asset :
               Fetched(s, {w \in published : AssetOf[w] \notin missing}, missing)
          \/ Fetched(s, {}, {})
     ELSE Fetched(s, {}, {})
  /\ UNCHANGED <<published, entries, status, commits, stocked, listed, excused, syncsBegun,
                     disturbances>>

\* DELETE, first as the database takes its snapshot, then as it deletes what it found.
StartDelete(s) ==
  LET sync == syncs[s]
  IN  /\ sync.pc = "delete" /\ sync.todo # <<>>
      /\ syncs' = [syncs EXCEPT ![s].pc = "deleting", ![s].snap = Rows(Listable[Head(sync.todo)])]
      /\ UNCHANGED <<published, entries, status, commits, stocked, listed, excused, syncsBegun,
                     disturbances>>

Locked(s, found) == \E t \in Busy(s) : syncs[t].gone \cap found \cap entries # {}

FinishDelete(s) ==
  LET sync == syncs[s]
  IN  /\ sync.pc = "deleting" /\ ~Locked(s, sync.snap)
      /\ syncs' = [syncs EXCEPT ![s].pc = "delete", ![s].todo = Tail(@),
                                ![s].gone = @ \cup (sync.snap \cap entries), ![s].snap = {}]
      /\ UNCHANGED <<published, entries, status, commits, stocked, listed, excused, syncsBegun,
                     disturbances>>

\* The rows are inserted as the transaction commits; one that is there already makes it fail.
Inserted(sync) ==
  (IF sync.crypto THEN sync.found ELSE {}) \cup (IF sync.countries THEN Country ELSE {})
Rivals(s) == {e \in entries \ syncs[s].gone : e.lists \in Inserted(syncs[s])}

Ended(s, said) ==
  /\ syncs' = [t \in Syncer |->
                 IF t = s THEN IdleSync
                 ELSE [syncs[t] EXCEPT !.stale = @ \/ (said # "conflict" /\ syncs[t].pc # "fetch")]]
  /\ status' = [said |-> said, alone |-> syncs[s].alone]

Persist(s) == syncs[s].pc = "delete" /\ syncs[s].todo = <<>> /\ ~Locked(s, Rivals(s))

CommitSync(s) ==
  LET sync == syncs[s]
  IN  /\ Persist(s) /\ Rivals(s) = {}
      /\ commits' = commits + 1
      /\ entries' = (entries \ sync.gone) \cup
                    {[lists |-> v, made |-> commits'] : v \in Inserted(sync)}
      /\ stocked' = (stocked \/ Inserted(sync) \cap Wallet # {})
      /\ listed' = (listed \cup Inserted(sync)) \cap published
      /\ excused' = (excused \cup {w \in listed : sync.stale \/ AssetOf[w] \in sync.missing})
                    \ Blocked'
      /\ Ended(s, IF sync.failed THEN "fetch failed" ELSE "ok")
      /\ UNCHANGED <<published, syncsBegun, disturbances>>

ConflictSync(s) ==
  /\ Persist(s) /\ Rivals(s) # {}
  /\ Ended(s, "conflict")
  /\ UNCHANGED <<published, entries, commits, stocked, listed, excused, syncsBegun,
                     disturbances>>

\* The database fails: the transaction is rolled back.
FailSync(s) ==
  /\ syncs[s].pc \in {"delete", "deleting"} /\ Disturb
  /\ syncs' = [syncs EXCEPT ![s] = IdleSync]
  /\ status' = [said |-> "failed", alone |-> syncs[s].alone]
  /\ UNCHANGED <<published, entries, commits, stocked, listed, excused, syncsBegun>>

-----------------------------------------------------------------------------
BlocklistInit ==
  /\ published \in SUBSET Wallet
  /\ entries = {} /\ syncs = [s \in Syncer |-> IdleSync]
  /\ status = [said |-> "never", alone |-> TRUE]
  /\ commits = 0 /\ stocked = FALSE /\ listed = {} /\ excused = {}
  /\ syncsBegun = 0 /\ disturbances = 0

BlocklistNext ==
  \/ \E w \in Wallet : Publish(w)
  \/ \E s \in Syncer :
       \/ \E crypto, countries \in BOOLEAN : BeginSync(s, crypto, countries)
       \/ Fetch(s) \/ StartDelete(s) \/ FinishDelete(s)
       \/ CommitSync(s) \/ ConflictSync(s) \/ FailSync(s)

BlocklistSpec == BlocklistInit /\ [][BlocklistNext]_blocklistVars

-----------------------------------------------------------------------------
\* A wallet that has been listed stays blocked while it is published, through outages of the lists
\* and of the database and whatever synchronisations overlap, unless a commit had fetched before
\* another one or was told that the wallet's list is not there.
PublishedStaysBlocked == listed \subseteq Blocked \cup excused

\* Once wallets have been listed some always are: no outage, race or missing list empties the
\* blocklist.
OutageKeepsList == stocked => Rows(Wallet) # {}

\* The list of wallets outlives what happens to its sources: both of these.
ListKept == PublishedStaysBlocked /\ OutageKeepsList

\* A synchronisation that ran alone never fails on the rows of an earlier one.
ConflictsAreOverlaps == status.said = "conflict" => ~status.alone
=============================================================================
