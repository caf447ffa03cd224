----------------------------- MODULE AutoCompaction ----------------------------
(* The compactions nobody asks for (compaction.rs; session.rs, from           *)
(* unattended_compact on), of one chat.  The driver goes through two doors: a *)
(* turn the framework ended over its spent tool calls, read from the ledger   *)
(* whenever a block changes; and two thresholds over what the stream observer *)
(* measured, read by a sweep.  Time is counted in sweeps.                     *)
EXTENDS Naturals

CONSTANTS
    Ttl,             \* KV_CACHE_TTL
    Margin,          \* CACHE_EDGE_MARGIN
    Quiet,           \* QUIET_WINDOW
    Never,           \* no instant
    MaxIncidents,    \* bound: turns ended over their tool calls
    MaxCompactions   \* bound: compactions that go through

ASSUME AutoCompactionAssumption ==
    /\ {Ttl, Margin, Quiet} \subseteq Nat \ {0} /\ Margin < Ttl /\ Never \notin Nat
    /\ {MaxIncidents, MaxCompactions} \subseteq Nat

VARIABLES
    used,            \* of the window, as the last turn reported: "unknown",
                     \* "some", "half" (more than), "wall" (its headroom)
    sinceDispatch,   \* sweeps since the prompt cache was warmed
    sinceInbound,    \* sweeps since a message arrived
    swept,           \* whether the sweep's last tick was taken
    driver,          \* "watches", "wakes", "sweeps" (compacting), "away", "ended"
    changed,         \* whether a block change of the serving session is queued
    superseded,      \* whether the session compacted is not the serving one any more
    own,             \* markers of forced ends in the serving thread's own life
    inherited,       \* those it took over
    incidents, compactions,
    healed,          \* compactions through the door of forced ends
    tried, absent    \* history: since the last dispatch, the driver compacted
                     \* this chat; it was busy elsewhere

readings == <<used, sinceDispatch, sinceInbound>>
markers  == <<own, inherited, incidents>>
counts   == <<compactions, healed>>
autoVars == <<readings, swept, driver, changed, superseded, markers, counts,
              tried, absent>>

AutoInit ==
    /\ used = "unknown" /\ sinceDispatch = Never /\ sinceInbound = Never
    /\ swept = TRUE /\ driver = "watches" /\ changed = FALSE /\ superseded = FALSE
    /\ own = 0 /\ inherited = 0 /\ incidents = 0
    /\ compactions = 0 /\ healed = 0
    /\ tried = FALSE /\ absent = FALSE

-----------------------------------------------------------------------------
(* The chat.                                                                  *)

Inbound ==
    /\ sinceInbound' = 0 /\ changed' = TRUE
    /\ UNCHANGED <<used, sinceDispatch, swept, driver, superseded, markers,
                   counts, tried, absent>>

(* A turn warms the cache, whatever it reports; silence is no measurement.    *)
Measured ==
    /\ sinceDispatch' = 0
    /\ used' \in {used, "some", "half", "wall"}
    /\ tried' = FALSE /\ absent' = (driver # "watches")

(* The observer may lag, and hear nothing of it.                              *)
Turn ==
    /\ Measured \/ UNCHANGED <<used, sinceDispatch, tried, absent>>
    /\ changed' = TRUE
    /\ \/ UNCHANGED markers
       \/ /\ incidents < MaxIncidents
          /\ incidents' = incidents + 1 /\ own' = own + 1
          /\ UNCHANGED inherited
    /\ UNCHANGED <<sinceInbound, swept, driver, superseded, counts>>

(* The driver lags, and a change it had to hear of is gone.                   *)
Lags ==
    /\ changed /\ changed' = FALSE
    /\ UNCHANGED <<readings, swept, driver, superseded, markers, counts, tried, absent>>

Later(since, most) == IF since \in {Never, most} THEN since ELSE since + 1

(* The interval fires; while the driver is in a compaction a tick is skipped, *)
(* and one that it is free for it takes in time.                              *)
TimePasses ==
    /\ swept \/ driver # "watches"
    /\ swept' = FALSE
    /\ sinceDispatch' = Later(sinceDispatch, Ttl)
    /\ sinceInbound' = Later(sinceInbound, Quiet)
    /\ UNCHANGED <<used, driver, changed, superseded, markers, counts, tried, absent>>

-----------------------------------------------------------------------------
(* The policy.                                                                *)

(* Both arms are silent where nothing was ever reported.                      *)
Armed == used = "wall" \/ (used = "half" /\ sinceDispatch = Ttl)

(* A warm cache's edge is near; past it there is nothing left to protect.     *)
NearEdge == sinceDispatch # Never /\ sinceDispatch >= Ttl - Margin /\ sinceDispatch < Ttl

Moment == sinceInbound \in {Never, Quiet} \/ NearEdge

\* Faulty variant: every marker of the ledger counts.
ExhaustedEver == own + inherited > 0

(* A marker that a thread took over is older than its opening.                *)
ExhaustedSinceOpening == own > 0

-----------------------------------------------------------------------------
(* The driver.                                                                *)

Drives(door) == driver' = door /\ tried' = TRUE

(* It reads the ledger on a change ...                                        *)
WakesOnChange ==
    /\ driver = "watches" /\ changed /\ changed' = FALSE
    /\ IF ExhaustedSinceOpening THEN Drives("wakes") ELSE UNCHANGED <<driver, tried>>
    /\ UNCHANGED <<readings, swept, superseded, markers, counts, absent>>

(* ... and the thresholds on a tick.                                          *)
Sweeps ==
    /\ driver = "watches" /\ ~swept /\ swept' = TRUE
    /\ IF Armed /\ Moment THEN Drives("sweeps") ELSE UNCHANGED <<driver, tried>>
    /\ UNCHANGED <<readings, changed, superseded, markers, counts, absent>>

(* Other chats' compactions run on the same task.                             *)
LeavesFor ==
    /\ driver = "watches" /\ driver' = "away" /\ absent' = TRUE
    /\ UNCHANGED <<readings, swept, changed, superseded, markers, counts, tried>>

ComesBack ==
    /\ driver = "away" /\ driver' = "watches"
    /\ UNCHANGED <<readings, swept, changed, superseded, markers, counts, tried,
                   absent>>

(* A successor has no reading of its own, and is not the session whose        *)
(* changes were queued; what it took over lies before its opening.            *)
Succeeds ==
    /\ used' = "unknown" /\ sinceDispatch' = Never /\ sinceInbound' = Never
    /\ changed' = FALSE
    /\ inherited' \in 0 .. own + inherited /\ own' = 0
    /\ compactions' = compactions + 1
    /\ UNCHANGED incidents

Compacted ==
    /\ driver \in {"wakes", "sweeps"} /\ ~superseded
    /\ compactions < MaxCompactions
    /\ Succeeds
    /\ healed' = IF driver = "wakes" THEN healed + 1 ELSE healed
    /\ driver' = "watches"
    /\ UNCHANGED <<swept, superseded, tried, absent>>

(* Someone's command goes through first, and the driver finds the chat moved. *)
CommandReplaces ==
    /\ compactions < MaxCompactions
    /\ Succeeds
    /\ superseded' = (driver \in {"wakes", "sweeps"})
    /\ UNCHANGED <<swept, driver, healed, tried, absent>>

(* It stood down, or it failed and the session stands; what was measured of a *)
(* session that the sweep went for is forgotten either way.  A fatal failure  *)
(* ends the watch.                                                            *)
CompactionFails ==
    /\ driver \in {"wakes", "sweeps"}
    /\ IF driver = "sweeps" /\ ~superseded
       THEN used' = "unknown" /\ sinceDispatch' = Never /\ sinceInbound' = Never
       ELSE UNCHANGED readings
    /\ driver' \in IF superseded THEN {"watches"} ELSE {"watches", "ended"}
    /\ superseded' = FALSE
    /\ UNCHANGED <<swept, changed, markers, counts, tried, absent>>

(* The process ends and starts: what was measured and queued dies with it.    *)
DriverRestarts ==
    /\ used' = "unknown" /\ sinceDispatch' = Never /\ sinceInbound' = Never
    /\ swept' = TRUE /\ driver' = "watches" /\ changed' = FALSE /\ superseded' = FALSE
    /\ UNCHANGED <<markers, counts, tried, absent>>

AutoNext ==
    \/ Inbound \/ Turn \/ Lags \/ TimePasses
    \/ WakesOnChange \/ Sweeps \/ LeavesFor \/ ComesBack
    \/ Compacted \/ CommandReplaces \/ CompactionFails \/ DriverRestarts

AutoSpec == AutoInit /\ [][AutoNext]_autoVars

-----------------------------------------------------------------------------
(* One incident costs one compaction: the marker that rides across into the   *)
(* successor, and into its successors, opens the door no second time.         *)
IncidentOnce == healed <= incidents

(* A chat at its window's headroom is not left to pay for a cold prefix: busy *)
(* as it may be, by the time its cache expires the driver has gone for it, or *)
(* was away with other chats.                                                 *)
EdgeKept ==
    (used = "wall" /\ sinceDispatch = Ttl /\ driver # "ended") => tried \/ absent

(* Neither too often nor too late.                                            *)
UnattendedKept == IncidentOnce /\ EdgeKept
=============================================================================
