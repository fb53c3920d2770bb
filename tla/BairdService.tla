---------------------------- MODULE BairdService ----------------------------
(***************************************************************************)
(* baird in two parts: the passes that make its list, and what its shared  *)
(* lists keep and hide.  A behaviour is of one of them, the other standing *)
(* at its start.                                                           *)
(***************************************************************************)
EXTENDS Baird

CONSTANTS
    AtHand,                                   \* those at hand
    Channel, Source, Group, Carries, In, Answers, For, MaxKept, MaxReads, MaxSwitches

VARIABLES
    which,
    carried, hiddenGroups, hidden, shown, knownGroups, newGroups, read, outcome, on,
    touched, cut, reads, switches

\* BairdLists: there are so many sources, and the keeping is a number of reads and of
\* places.
ASSUME ListsAssumption ==
    /\ IsFiniteSet(Source) /\ Carries \in [Channel -> SUBSET Source]
    /\ For \in Nat /\ MaxKept \in Nat

L == INSTANCE BairdLists WITH listed <- carried, edits <- switches, MaxEdits <- MaxSwitches

listVars == <<carried, hiddenGroups, hidden, shown, knownGroups, newGroups, read, outcome, on,
              touched, cut, reads, switches>>
allVars == <<which, listVars, vars>>

PartsInit == which \in AtHand /\ Init /\ L!Init

PartsNext ==
    \/ which = "passes" /\ Next /\ UNCHANGED <<which, listVars>>
    \/ which = "lists" /\ L!Next /\ UNCHANGED <<which, vars>>

PartsSpec == PartsInit /\ [][PartsNext]_allVars
-----------------------------------------------------------------------------
\* BairdLists: no group shows that nobody has decided about.
GroupsAreDecided == L!GroupsAreDecided
\* BairdLists: what the lists carry goes in.
CarriedGoIn == L!CarriedGoIn
\* BairdLists: of what they drop, the best is kept.
KeptAreTheBest == L!KeptAreTheBest
=============================================================================
