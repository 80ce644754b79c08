---------------------------- MODULE LedgerReplay ----------------------------
(***************************************************************************)
(* What the ledger is for: replaying a balance from its entries, checking  *)
(* the live one against the replay (reconcile) and writing the replay over *)
(* it (rebuildBalance), beside the writers of SpotLedger and the two paths *)
(* between redis and mongo: the backup cron and the hydration of a missing *)
(* field.  Every await is a step of its own, so any script may run between *)
(* two reads of the reader.  One reader runs at a time: to a reconcile, a  *)
(* rebuild is one more write that bypasses the ledger, as a hydration is.  *)
(***************************************************************************)
EXTENDS SpotLedger

CONSTANT MaxLosses      \* bound of the model: how often the field is lost

ASSUME LossesAssumption == MaxLosses \in Nat

VARIABLES
    mongo,      \* the asset's spotBal in the wallet document
    backup,     \* what the backup cron has read and not saved, as <<value>>
    hydrating,  \* what a hydration has read and not seeded, as <<value>>
    losses,     \* how often the field was lost
    reader,     \* the reconcile or rebuild under way, and what it has read
    tainted     \* ghost: a wrong balance was used as the start of a figure

vars == <<present, bal, stream, truth, mongo, backup, hydrating, losses, reader,
          tainted>>

\* `at` is how far it has come: "idle", "live", "counted" or "replayed"; `value` is
\* what was read.  Ghosts: `owed` is the truth at that read, `raced` says that
\* something was written since.
Idle == [at |-> "idle", value |-> 0, owed |-> 0, raced |-> FALSE]
Reading(at, value, owed) ==
    [at |-> at, value |-> value, owed |-> owed, raced |-> FALSE]

durable == <<mongo, backup, hydrating>>

Raced == reader' = [reader EXCEPT !.raced = reader.at /= "idle"]

-----------------------------------------------------------------------------
\* opening + deltas: from the `before` of the oldest survivor, not from zero.
\* No entries replay to 0, which says nothing of the balance.
replayBalanceFromZero(entries) ==        \* mutant
    LET sum[i \in 0..Len(entries)] ==
            IF i = 0 THEN 0 ELSE sum[i - 1] + entries[i].delta
    IN sum[Len(entries)]

replayBalance(entries) ==
    LET opening == IF entries = <<>> THEN 0 ELSE entries[1].before
        sum[i \in 0..Len(entries)] ==
            IF i = 0 THEN opening ELSE sum[i - 1] + entries[i].delta
    IN sum[Len(entries)]

\* A wrong balance taints the stream when an absolute set takes its delta, or the
\* first entry its opening, from it; so does a trim that forgets a write which
\* bypassed the ledger.
Taints(absolute) ==
    \/ bal /= truth /\ (absolute \/ stream = <<>>)
    \/ ~(ChainIntact /\ LedgerMeetsBalance) /\ Len(stream') <= Len(stream)

RelativeWrite ==
    /\ \E a \in Amounts : Credit(a) \/ Debit(a) \/ Apply(-a)
    /\ tainted' = (tainted \/ Taints(FALSE))
    /\ Raced
    /\ UNCHANGED <<durable, losses>>

AbsoluteWrite ==
    /\ \E t \in Targets : SetTo(t)
    /\ tainted' = (tainted \/ Taints(TRUE))
    /\ Raced
    /\ UNCHANGED <<durable, losses>>

\* A crash or a restore takes the field and leaves the stream.
FieldLost ==
    /\ present /\ losses < MaxLosses
    /\ present' = FALSE
    /\ bal' = 0
    /\ losses' = losses + 1
    /\ Raced
    /\ UNCHANGED <<stream, truth, durable, tainted>>

-----------------------------------------------------------------------------
\* redisBackUpWalletByCron: all fields are read, and saved one document after the
\* other, with whatever they held at the read.
BackupRead ==
    /\ backup = <<>> /\ present
    /\ backup' = <<bal>>
    /\ UNCHANGED <<ledgerVars, mongo, hydrating, losses, reader, tainted>>

BackupSave ==
    /\ backup /= <<>>
    /\ mongo' = backup[1]
    /\ backup' = <<>>
    /\ UNCHANGED <<ledgerVars, hydrating, losses, reader, tainted>>

\* An order that finds no field calls updateUserWallet, which reads the document
\* and seeds the field by HSETNX: one created in the meantime is left alone.
FieldFoundMissing ==
    /\ ~present /\ hydrating = <<>>
    /\ hydrating' = <<mongo>>
    /\ UNCHANGED <<ledgerVars, mongo, backup, losses, reader, tainted>>

Hydrate ==
    /\ hydrating /= <<>>
    /\ hydrating' = <<>>
    /\ IF present
         THEN UNCHANGED <<bal, present, reader>>
         ELSE bal' = hydrating[1] /\ present' = TRUE /\ Raced
    /\ UNCHANGED <<stream, truth, mongo, backup, losses, tainted>>

-----------------------------------------------------------------------------
\* reconcile: HGET the live balance, then XRANGE the entries and compare.
ReconcileReadLive ==
    /\ reader = Idle
    /\ reader' = Reading("live", bal, truth)
    /\ UNCHANGED <<ledgerVars, durable, losses, tainted>>

Verdict ==
    IF stream = <<>> THEN "cannot_say"
    ELSE IF reader.value = replayBalance(stream) THEN "ok" ELSE "drift"

ReconcileReplay ==
    /\ reader.at = "live"
    /\ reader' = Idle
    /\ UNCHANGED <<ledgerVars, durable, losses, tainted>>

\* Mutant: the empty ledger is not refused.
RebuildCountUnchecked ==
    /\ reader = Idle
    /\ reader' = Reading("counted", 0, 0)
    /\ UNCHANGED <<ledgerVars, durable, losses, tainted>>

\* rebuildBalance: XLEN refuses an empty ledger; XRANGE and replay; HSET.
RebuildCount ==
    /\ reader = Idle
    /\ stream /= <<>>
    /\ reader' = Reading("counted", 0, 0)
    /\ UNCHANGED <<ledgerVars, durable, losses, tainted>>

RebuildReplay ==
    /\ reader.at = "counted"
    /\ reader' = Reading("replayed", replayBalance(stream), truth)
    /\ UNCHANGED <<ledgerVars, durable, losses, tainted>>

RebuildWrite ==
    /\ reader.at = "replayed" /\ InBounds(reader.value)
    /\ present' = TRUE
    /\ bal' = reader.value
    /\ reader' = Idle
    /\ UNCHANGED <<stream, truth, durable, losses, tainted>>

-----------------------------------------------------------------------------
ReplayInit ==
    /\ Init
    /\ mongo = bal
    /\ backup = <<>> /\ hydrating = <<>>
    /\ losses = 0
    /\ reader = Idle
    /\ tainted = FALSE

ReplayNext ==
    \/ RelativeWrite \/ AbsoluteWrite
    \/ FieldLost
    \/ BackupRead \/ BackupSave
    \/ FieldFoundMissing \/ Hydrate
    \/ ReconcileReadLive \/ ReconcileReplay
    \/ RebuildCount \/ RebuildReplay \/ RebuildWrite

ReplaySpec == ReplayInit /\ [][ReplayNext]_vars

-----------------------------------------------------------------------------
\* A rebuild writes what the account was owed when it replayed, from any lost or
\* stale balance, unless a wrong balance has been taken as a starting figure; so
\* one that nothing raced restores the account exactly.
RebuildIsExact ==
    [][RebuildWrite /\ ~tainted => /\ bal' = reader.owed
                                   /\ ~reader.raced => bal' = truth]_vars

\* A verdict nothing raced is right in both directions: drift means the balance
\* was wrong when it was read, ok that it was right.
VerdictIsRight ==
    [][ReconcileReplay /\ ~reader.raced /\ ~tainted =>
          /\ Verdict = "drift" => reader.value /= reader.owed
          /\ Verdict = "ok" => reader.value = reader.owed]_vars
=============================================================================
