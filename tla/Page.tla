-------------------------------- MODULE Page ---------------------------------
(***************************************************************************)
(* The parts of the page that share no state: a behaviour is one of one    *)
(* part.  Each part has its own sizes and bounds.                          *)
(***************************************************************************)
EXTENDS Naturals, Sequences

CONSTANTS
    None,
    Tiles, MaxTileMoves,                                        \* Screen
    MaxClaims,                                                  \* Claims
    Texts, Suggested, Remote, Deletable, Folders, MaxFieldKeys, \* Prompt
    MaxDialogs, MaxKeys,                                        \* Dialogs
    Names, Spaced, MaxRecents, MaxChainMoves,                   \* NewShell
    RunGap, MinRun, InputIdle, Cooldown, EndOfTime,             \* Bell
    MaxTouches,                                                 \* Gestures
    Shells, Queries, Bad, MaxSearchSteps,                       \* Search
    MaxJobs, MaxFiles, MaxLosses,                               \* Paste
    Tabs, DeviceOf, MaxLockSteps,                               \* Locking
    MaxVersion, MaxLoads                                        \* AppUpdate

ASSUME PageAssumption ==
    /\ MaxDialogs \in Nat /\ MaxVersion \in Nat \ {0}
    /\ RunGap \in Nat \ {0} /\ MinRun \in Nat /\ InputIdle \in Nat
    /\ None \notin Shells /\ None \notin 1..MaxVersion
    /\ Remote \subseteq Texts
    /\ MaxRecents \in Nat /\ None \notin Names

ASSUME PageBounds ==
    /\ MaxTileMoves \in Nat /\ MaxClaims \in Nat /\ MaxFieldKeys \in Nat /\ MaxKeys \in Nat
    /\ MaxChainMoves \in Nat /\ MaxTouches \in Nat /\ MaxSearchSteps \in Nat
    /\ MaxJobs \in Nat /\ MaxFiles \in Nat /\ MaxLosses \in Nat
    /\ MaxLockSteps \in Nat /\ MaxLoads \in Nat
    /\ Cooldown \in Nat /\ EndOfTime \in Nat
    /\ "" \in Texts /\ Deletable \subseteq Texts
    /\ Suggested \in [Texts -> [SUBSET Deletable -> Seq(Texts)]]

VARIABLES part, x

vars == <<part, x>>

Screens   == INSTANCE Screen WITH MaxMoves <- MaxTileMoves
Sizes     == INSTANCE Claims
Field     == INSTANCE Prompt WITH MaxKeys <- MaxFieldKeys
Stack     == INSTANCE Dialogs
Chain     == INSTANCE NewShell WITH MaxMoves <- MaxChainMoves
Ring      == INSTANCE Bell
Touch     == INSTANCE Gestures
Finder    == INSTANCE Search WITH MaxSteps <- MaxSearchSteps
Clipboard == INSTANCE Paste
Locks     == INSTANCE Locking WITH MaxSteps <- MaxLockSteps
Versions  == INSTANCE AppUpdate

Init ==
    \/ part = "screen"   /\ Screens!Init
    \/ part = "claims"   /\ Sizes!Init
    \/ part = "prompt"   /\ Field!Init
    \/ part = "dialogs"  /\ Stack!Init
    \/ part = "newShell" /\ Chain!Init
    \/ part = "bell"     /\ Ring!Init
    \/ part = "gestures" /\ Touch!Init
    \/ part = "search"   /\ Finder!Init
    \/ part = "paste"    /\ Clipboard!Init
    \/ part = "locking"  /\ Locks!Init
    \/ part = "update"   /\ Versions!Init

Next ==
    /\ \/ part = "screen"   /\ Screens!Next
       \/ part = "claims"   /\ Sizes!Next
       \/ part = "prompt"   /\ Field!Next
       \/ part = "dialogs"  /\ Stack!Next
       \/ part = "newShell" /\ Chain!Next
       \/ part = "bell"     /\ Ring!Next
       \/ part = "gestures" /\ Touch!Next
       \/ part = "search"   /\ Finder!Next
       \/ part = "paste"    /\ Clipboard!Next
       \/ part = "locking"  /\ Locks!Next
       \/ part = "update"   /\ Versions!Next
    /\ UNCHANGED part

Spec == Init /\ [][Next]_vars

-----------------------------------------------------------------------------
\* The state of every part is well typed.
TypeOK ==
    CASE part = "screen"   -> Screens!TypeOK
      [] part = "claims"   -> Sizes!TypeOK
      [] part = "prompt"   -> Field!TypeOK
      [] part = "dialogs"  -> Stack!TypeOK
      [] part = "newShell" -> Chain!TypeOK
      [] part = "bell"     -> Ring!TypeOK
      [] part = "gestures" -> Touch!TypeOK
      [] part = "search"   -> Finder!TypeOK
      [] part = "paste"    -> Clipboard!TypeOK
      [] part = "locking"  -> Locks!TypeOK
      [] part = "update"   -> Versions!TypeOK

\* No terminal that can be seen is held back (Screen: setActive, updateSleepState).
ShownRuns == part = "screen" => Screens!ShownRuns

\* The tab bar of a fullscreen tile names every session (Screen: _renderFsTabs).
TabsComplete == part = "screen" => Screens!TabsComplete

\* An active tile is never scaled (Claims: _handlePtySize).
ActiveNotScaled == part = "claims" => Sizes!ActiveNotScaled

\* Who believes to be active is the server's active client (Claims:
\* _handlePtySize, handleClaimActive).
BelieverIsActive == part = "claims" => Sizes!BelieverIsActive

\* The suggestions shown are those of the text (Prompt: updateSuggestions).
SuggestionsFit == part = "prompt" => Field!SuggestionsFit

\* No dialog is answered twice (Dialogs: _cleanup).
AnsweredOnce == part = "dialogs" => Stack!AnsweredOnce

\* What could not be used is not offered again (NewShell: promptCreate).
PrunedStaysPruned == part = "newShell" => Chain!PrunedStaysPruned

\* The bell of a finished run rings, and no other (Bell: runTick).
RingsExact == part = "bell" => Ring!RingsExact

\* At most one key is sent by a gesture of two fingers (Gestures: touchend).
OneKeyOfTwoFingers == part = "gestures" => Touch!OneKeyOfTwoFingers

\* Highlights are of the open search of the active session (Search: closeSearch).
HighlightsOwned == part = "search" => Finder!HighlightsOwned

\* Every pasted file reaches the terminal or is reported (Paste: the uploads).
EveryFileAccounted == part = "paste" => Clipboard!EveryFileAccounted

\* A lock in one tab reaches the others of the browser (Locking: lock-req).
LockReachesAll == part = "locking" => Locks!LockReachesAll

\* A page and its assets are of one version (AppUpdate: cacheFirst).
PageConsistent == part = "update" => Versions!PageConsistent

\* The check of a loaded page never reloads in a loop (AppUpdate: toastUpdated).
NeverLoops == part = "update" => Versions!NeverLoops

=============================================================================
