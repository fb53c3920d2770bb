------------------------------ MODULE PiMetrics ------------------------------
(***************************************************************************)
(* pi-metrics: the rule for a file's audio tracks (AudioPlan), the         *)
(* playback collector with the ledger it keeps (AudioLedger), the media    *)
(* and disk collectors (MediaPass).  Each collector runs in a goroutine of *)
(* its own and they share no variable, so a behaviour is of one of them,   *)
(* the others standing at their start.                                     *)
(***************************************************************************)
EXTENDS AudioPlan

CONSTANTS
    AtHand,                                    \* those at hand
    Clients, Profile, Files, File, Plays, Listed,
    LedgerLimit, CacheLimit, MaxPlays, MaxPolls, LedgerFailures,
    Films, Ratio, Low, Bytes, MinOrphan, MaxMoves, MaxFailures

VARIABLES
    which,
    playing, log, oldLog, causes, pollPc, listing, problems, ledger, tmp, file, store,
    produced, edited, turned, plays, polls, ledgerFailures,
    names, torrents, queue, monitored, pending, pc, movies, queued, claims, out, calm,
    whole, walk, found, charged, purposes, still, moves, failures

L == INSTANCE AudioLedger WITH
        pc <- pollPc, found <- listing, failures <- ledgerFailures, MaxFailures <- LedgerFailures
M == INSTANCE MediaPass

\* MediaPass: the films are told from the folders of the client; payload files are
\* above the size from which links are counted.
ASSUME MediaAssumption ==
    /\ Films \intersect {"cross-seed", "incomplete", ".RecycleBin"} = {}
    /\ Bytes \in [Films -> Nat] /\ MinOrphan \in Nat
    /\ \A f \in Films : Bytes[f] * 2 > MinOrphan

\* AudioLedger: what a profile, a file and a bound are.
ASSUME LedgerAssumption ==
    /\ IsFiniteSet(Clients)
    /\ \A c \in Clients : Profile[c].browser \in BOOLEAN /\ Profile[c].video \in BOOLEAN
    /\ \A f \in Files : File[f].tracks \in Seq(STRING) \ {<<>>} /\ File[f].library \in BOOLEAN
    /\ Plays \subseteq Clients \X Files /\ Listed \subseteq Files
    /\ LedgerLimit \in Nat /\ MaxPlays \in Nat

plansVars == <<tracks, played, plan, original, nights, conversions>>
ledgerVars == <<playing, log, oldLog, causes, pollPc, listing, problems, ledger, tmp, file, store,
                produced, edited, turned, plays, polls, ledgerFailures>>
mediaVars == <<names, torrents, queue, monitored, pending, pc, movies, queued, claims, out, calm,
               whole, walk, found, charged, purposes, still, moves, failures>>
allVars == <<which, plansVars, ledgerVars, mediaVars>>

PartsInit == which \in AtHand /\ Init /\ L!Init /\ M!Init

PartsNext ==
    \/ which = "plan" /\ Next /\ UNCHANGED <<which, ledgerVars, mediaVars>>
    \/ which = "ledger" /\ L!Next /\ UNCHANGED <<which, plansVars, mediaVars>>
    \/ which = "media" /\ M!Next /\ UNCHANGED <<which, plansVars, ledgerVars>>

PartsSpec == PartsInit /\ [][PartsNext]_allVars
-----------------------------------------------------------------------------
\* AudioLedger: a codec is learned from a client that refuses it, or that changed its
\* request in the middle of a file that has it.
LearnedFromRefusals == L!LearnedFromRefusals
\* AudioLedger: what the page lists is decided by the codecs listed with it.
DecisionsFollow == L!DecisionsFollow
\* AudioLedger: the time of the last snapshot is that of the last snapshot.
LastSuccessProduced == L!LastSuccessProduced
\* MediaPass: an undisturbed pass says what is so.
CalmPassIsTrue == M!CalmPassIsTrue
\* MediaPass: the purposes and the folders tell of each film once.
UsageAddsUp == M!UsageAddsUp
=============================================================================
