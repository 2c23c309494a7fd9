------------------------- MODULE DetachedTerminals -------------------------
(***************************************************************************)
(* Terminals in windows of their own: useDetachedTerminalWindows of the    *)
(* page (workspace-layout.tsx) over detached-terminal-window.ts and the    *)
(* browser's windows.  While a session is in keys, the page shows a        *)
(* placeholder in place of its terminal ("Close that window to resume the  *)
(* docked terminal here"), so a session that stays in keys without a       *)
(* window cannot be used.  The page hears of a window's end from a poll,   *)
(* which runs every 500 ms, and from pagehide, which comes late or never.  *)
(*                                                                         *)
(* A click that opens a window is an attempt, a number in the order of the *)
(* clicks; it is also the id of its poll, and of the window it creates.    *)
(* Only a request for a Picture-in-Picture window awaits an answer:        *)
(* window.open returns at once, and what follows it runs in the same task. *)
(***************************************************************************)
EXTENDS Naturals

CONSTANTS
    Sessions,  \* selection keys
    Names,     \* window names
    NameOf,    \* getDetachedTerminalWindowName, which may map two keys to one
    MaxOpens   \* bound: attempts in a behaviour

ASSUME DetachedAssumption ==
    /\ Sessions # {}
    /\ NameOf \in [Sessions -> Names]
    /\ MaxOpens \in Nat

VARIABLES
    asked,      \* attempts made so far
    of,         \* the session of each attempt
    watch,      \* the window each attempt was given; 0 when none
    asking,     \* the attempts whose requestWindow has not settled
    polls,      \* the intervals that run
    listening,  \* the attempts whose pagehide listener has not run
    records,    \* detachedWindowRecords: the attempt that is recorded, or 0
    keys,       \* detachedTerminalSessionKeys
    kind,       \* what kind of window each attempt created
    open,       \* the windows that are not closed
    leaving     \* the windows whose document is yet to fire pagehide

attemptVars == <<asked, of, watch>>
pageVars    == <<asking, polls, listening, records, keys>>
windowVars  == <<kind, open, leaving>>
vars == <<attemptVars, pageVars, windowVars>>

Attempts == 1..MaxOpens

-----------------------------------------------------------------------------
(* record && !record.popup.closed *)
Alive(s) == records[s] # 0 /\ watch[records[s]] \in open

(* hasOpenDocumentPictureInPictureWindow *)
RecordedPip == \E s \in Sessions : Alive(s) /\ kind[watch[records[s]]] = "pip"

OpenPips == {w \in open : kind[w] = "pip"}
WindowsNamed(s) == {w \in open : kind[w] = "popup" /\ NameOf[of[w]] = NameOf[s]}

(* Mistaken: the map is cleared, the state the page renders is not. *)
ForgetRecord(S) ==
    /\ polls' = polls \ {records[s] : s \in S}
    /\ records' = [s \in Sessions |-> IF s \in S THEN 0 ELSE records[s]]
    /\ UNCHANGED keys

(* forgetDetachedTerminalWindow, once for each session in S *)
Forget(S) ==
    /\ polls' = polls \ {records[s] : s \in S}
    /\ records' = [s \in Sessions |-> IF s \in S THEN 0 ELSE records[s]]
    /\ keys' = keys \ S

(* What follows a window that was opened.  A record that is overwritten    *)
(* takes the id of its interval with it: that interval runs on.            *)
Register(p, s, w, running) ==
    /\ watch' = [watch EXCEPT ![p] = w]
    /\ polls' = running \union {p}
    /\ listening' = listening \union {p}
    /\ records' = [records EXCEPT ![s] = p]
    /\ keys' = keys \union {s}

(* Mistaken: the window is opened without its name. *)
PopupUnnamed(p, s, running) ==
    /\ kind' = [kind EXCEPT ![p] = "popup"]
    /\ open' = open \union {p}
    /\ UNCHANGED leaving
    /\ Register(p, s, p, running)

(* window.open: a window of that name is navigated, else one is created    *)
Popup(p, s, running) ==
    \/ /\ WindowsNamed(s) = {}
       /\ kind' = [kind EXCEPT ![p] = "popup"]
       /\ open' = open \union {p}
       /\ UNCHANGED leaving
       /\ Register(p, s, p, running)
    \/ \E w \in WindowsNamed(s) :
         /\ leaving' = leaving \union {w}
         /\ UNCHANGED <<kind, open>>
         /\ Register(p, s, w, running)

(* ... or it is blocked, and the user is offered to open it here           *)
Blocked == UNCHANGED <<watch, listening, windowVars>>

-----------------------------------------------------------------------------
Init ==
    /\ asked = 0
    /\ of = [p \in Attempts |-> CHOOSE s \in Sessions : TRUE]
    /\ watch = [p \in Attempts |-> 0]
    /\ asking = {}
    /\ polls = {}
    /\ listening = {}
    /\ records = [s \in Sessions |-> 0]
    /\ keys = {}
    /\ kind = [p \in Attempts |-> "none"]
    /\ open = {}
    /\ leaving = {}

(* openDetachedTerminalWindow of a session whose window is open: focus it  *)
OpenAgain(s) ==
    /\ Alive(s)
    /\ keys' = keys \union {s}
    /\ UNCHANGED <<attemptVars, asking, polls, listening, records, windowVars>>

(* ... of a session without one; a record of a closed window is forgotten  *)
OpenDetached(s) ==
    /\ ~Alive(s)
    /\ asked < MaxOpens
    /\ asked' = asked + 1
    /\ of' = [of EXCEPT ![asked + 1] = s]
    /\ IF RecordedPip
       THEN /\ UNCHANGED asking
            /\ \/ Popup(asked + 1, s, polls \ {records[s]})
               \/ /\ WindowsNamed(s) = {}
                  /\ Blocked
                  /\ Forget({s})
       ELSE /\ asking' = asking \union {asked + 1}
            /\ Forget({s})
            /\ UNCHANGED <<watch, listening, windowVars>>

(* requestWindow settles: the browser closes the window it shows for this  *)
(* page, if any, and opens another                                         *)
PipGranted(p) ==
    /\ p \in asking
    /\ asking' = asking \ {p}
    /\ kind' = [kind EXCEPT ![p] = "pip"]
    /\ open' = (open \ OpenPips) \union {p}
    /\ leaving' = leaving \union OpenPips
    /\ Register(p, of[p], p, polls)
    /\ UNCHANGED <<asked, of>>

(* ... or fails, at once where the browser has no such windows             *)
PipRefused(p) ==
    /\ p \in asking
    /\ asking' = asking \ {p}
    /\ \/ Popup(p, of[p], polls)
       \/ /\ WindowsNamed(of[p]) = {}
          /\ Blocked
          /\ UNCHANGED <<polls, records, keys>>
    /\ UNCHANGED <<asked, of>>

(* The placeholder's button; focusing an open window changes nothing       *)
FocusDetached(s) ==
    /\ s \in keys
    /\ ~Alive(s)
    /\ Forget({s})
    /\ UNCHANGED <<attemptVars, asking, listening, windowVars>>

(* Mistaken: popups are expected to announce their end by pagehide. *)
PollPip(p) ==
    /\ p \in polls
    /\ kind[watch[p]] = "pip"
    /\ watch[p] \notin open
    /\ Forget({of[p]})
    /\ UNCHANGED <<attemptVars, asking, listening, windowVars>>

Poll(p) ==
    /\ p \in polls
    /\ watch[p] \notin open
    /\ Forget({of[p]})
    /\ UNCHANGED <<attemptVars, asking, listening, windowVars>>

PageHides(w) ==
    /\ w \in leaving
    /\ leaving' = leaving \ {w}
    /\ LET heard == {p \in listening : watch[p] = w}
       IN  /\ listening' = listening \ heard
           /\ Forget({of[p] : p \in heard})
    /\ UNCHANGED <<attemptVars, asking, kind, open>>

-----------------------------------------------------------------------------
(* The user and the browser *)

CloseWindow(w) ==
    /\ w \in open
    /\ open' = open \ {w}
    /\ leaving' = leaving \union {w}
    /\ UNCHANGED <<attemptVars, pageVars, kind>>

(* A popup is reloaded or follows a link: another document, still open     *)
ReloadPopup(w) ==
    /\ w \in open \ leaving
    /\ kind[w] = "popup"
    /\ leaving' = leaving \union {w}
    /\ UNCHANGED <<attemptVars, pageVars, kind, open>>

(* The document of the page goes, and with it what it waits for and its    *)
(* Picture-in-Picture window; popups stay and keep their names             *)
PageLeaves(closed) ==
    /\ asking' = {}
    /\ polls' = {}
    /\ listening' = {}
    /\ records' = [s \in Sessions |-> 0]
    /\ keys' = {}
    /\ open' = open \ (OpenPips \union closed)
    /\ UNCHANGED <<attemptVars, kind, leaving>>

ReloadPage == PageLeaves({})

(* "Attach": the window sends the page to the session's route and closes   *)
AttachDetached(w) == w \in open /\ PageLeaves({w})

Next ==
    \/ \E s \in Sessions : OpenAgain(s) \/ OpenDetached(s) \/ FocusDetached(s)
    \/ \E p \in Attempts :
         \/ PipGranted(p) \/ PipRefused(p) \/ Poll(p)
         \/ PageHides(p) \/ CloseWindow(p) \/ ReloadPopup(p) \/ AttachDetached(p)
    \/ ReloadPage

Spec == Init /\ [][Next]_vars

(* An interval that runs fires; pagehide is not relied on                  *)
Fairness == \A p \in Attempts : WF_vars(Poll(p))
LiveSpec == Spec /\ Fairness

-----------------------------------------------------------------------------
(* Types, and what the browser keeps: one Picture-in-Picture window for a  *)
(* page, one window for a name.                                            *)
TypeOK ==
    /\ asked \in 0..MaxOpens
    /\ of \in [Attempts -> Sessions]
    /\ watch \in [Attempts -> 0..MaxOpens]
    /\ asking \subseteq 1..asked
    /\ polls \subseteq 1..asked
    /\ listening \subseteq 1..asked
    /\ records \in [Sessions -> 0..asked]
    /\ keys \subseteq Sessions
    /\ kind \in [Attempts -> {"none", "pip", "popup"}]
    /\ open \subseteq {w \in 1..asked : kind[w] # "none"}
    /\ leaving \subseteq 1..asked
    /\ \A v, w \in OpenPips : v = w
    /\ \A v, w \in open : /\ kind[v] = "popup" /\ kind[w] = "popup"
                          /\ NameOf[of[v]] = NameOf[of[w]]
                          => v = w

(* A session shows the placeholder exactly while the page has a record of  *)
(* its window, and then an interval runs that looks at the window of that  *)
(* record and knows the session: whatever overlapping requests, renamed    *)
(* windows and stray intervals overwrite or forget (workspace-layout.tsx,  *)
(* 1881-1971).                                                             *)
PlaceholderIsWatched ==
    /\ keys = {s \in Sessions : records[s] # 0}
    /\ \A s \in keys : /\ records[s] \in polls
                       /\ of[records[s]] = s
                       /\ watch[records[s]] # 0

(* A placeholder whose window is closed goes, or gets another window: the  *)
(* terminal is docked again even if pagehide never fires (the placeholder  *)
(* of terminal.tsx promises it, terminal.tsx:102).                         *)
PlaceholderGoes ==
    \A s \in Sessions :
        s \in keys /\ ~Alive(s) ~> s \notin keys \/ Alive(s)
=============================================================================
