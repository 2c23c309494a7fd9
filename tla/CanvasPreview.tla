--------------------------- MODULE CanvasPreview ---------------------------
(***************************************************************************)
(* The browser of the canvas (canvas-web-preview.tsx).  It shows a local   *)
(* web application in an iframe and keeps an address bar, a history and    *)
(* the URL to come back to in step with it, per target (a session).        *)
(*                                                                         *)
(* Three parties write the same state at different times: the user, the    *)
(* application in the frame, whose bridge reports every location change by *)
(* postMessage, and the workspace page, which stores each reported URL as  *)
(* a preference and hands it back as the prop defaultUrl (the echo).  The  *)
(* handlers are closures of the last committed render (page), their        *)
(* updates are queued (state, prefs) until React renders again: at the end *)
(* of a click, but in a later task after a message or a promise.           *)
(***************************************************************************)
EXTENDS Naturals, Sequences, FiniteSetsExt

CONSTANTS
    Targets,     \* what the canvas can be about
    Urls,        \* the pages of the applications
    Site,        \* the pages the user and the application of a target visit
    NoUrl,       \* no URL: undefined or ''
    Stored,      \* the URLs the preferences may have kept for the targets
    MaxHistory,  \* bound: entries of a history
    MaxNav,      \* bound: navigation ids
    MaxReports   \* bound: reports on their way from the frame

ASSUME PreviewAssumption ==
    /\ Site \in [Targets -> SUBSET Urls]
    /\ NoUrl \notin Urls
    /\ Stored \subseteq [Targets -> Urls \cup {NoUrl}]
    /\ \A urls \in Stored, t \in Targets : urls[t] \in Site[t] \cup {NoUrl}
    /\ {MaxHistory, MaxReports} \subseteq Nat \ {0}
    /\ MaxNav \in Nat

VARIABLES
    state,       \* previewState, with the updates queued so far
    prefs,       \* canvasPreviewUrls, with the updates queued so far
    page,        \* what the last render committed
    registered,  \* frameState: the URL registered last, and for whom
    registering, \* the registration under way, or NoJob
    clearing,    \* the default URL a hard reload under way closed over
    frame,       \* the iframe: its React key, its location, has it loaded
    reports,     \* location changes of that iframe, not yet handled
    overtaken    \* has a handler of this canvas been overtaken (history)

vars == <<state, prefs, page, registered, registering, clearing, frame, reports,
          overtaken>>

None == "none"
NoJob == [id |-> 0, url |-> NoUrl, target |-> None]
NoFrame == [key |-> NoJob, at |-> NoUrl, loaded |-> FALSE]

-----------------------------------------------------------------------------
(* Preview states *)

CurrentUrl(s) ==
    IF s.index \in DOMAIN s.history THEN s.history[s.index] ELSE NoUrl

(* createPreviewState; an index is one more than historyIndex *)
CreatePreviewState(default) ==
    [history |-> IF default = NoUrl THEN <<>> ELSE <<default>>,
     index   |-> IF default = NoUrl THEN 0 ELSE 1,
     loading |-> FALSE,
     id      |-> 0,
     url     |-> default,
     source  |-> default]

(* Mistaken: every echo starts the preview anew *)
ActiveResets(s, default) ==
    IF s.source = default THEN s ELSE CreatePreviewState(default)

(* getActivePreviewState *)
Active(s, default) ==
    IF s.source = default THEN s
    ELSE IF default # NoUrl /\ default = CurrentUrl(s)
         THEN [s EXCEPT !.source = default]
         ELSE CreatePreviewState(default)

(* updatePreviewState: what a handler of the committed page updates *)
Base == Active(state, page.default)

(* Mistaken: the index runs ahead of the history *)
VisitOffByOne(s, url) ==
    [s EXCEPT !.history = Append(s.history, url), !.index = s.index + 2]

Visit(s, url) ==
    LET n == Min({s.index, Len(s.history)}) IN
    [s EXCEPT !.history = Append(SubSeq(s.history, 1, n), url),
              !.index = s.index + 1]

Bind(s, url) == [s EXCEPT !.loading = TRUE, !.id = s.id + 1, !.url = url]

-----------------------------------------------------------------------------
(* A render commits the view of a target, and its effects follow           *)

View(t, s, urls) ==
    LET v == Active(s, urls[t]) IN
    [target |-> t, default |-> urls[t], history |-> v.history,
     index |-> v.index, loading |-> v.loading, id |-> v.id, url |-> v.url]

Job(v) == IF v.url = NoUrl
          THEN NoJob
          ELSE [id |-> v.id, url |-> v.url, target |-> v.target]

(* Mistaken: the key leaves the navigation out *)
FrameKeyOfUrl(v) ==
    IF CurrentUrl(v) # NoUrl /\ registered # NoJob /\ registered.url = v.url
    THEN [id |-> 0, url |-> v.url, target |-> registered.target]
    ELSE NoJob

(* The iframe is keyed by the navigation and the registered URL *)
FrameKey(v) ==
    IF CurrentUrl(v) # NoUrl /\ registered # NoJob /\ registered.url = v.url
    THEN [id |-> v.id, url |-> v.url, target |-> registered.target]
    ELSE NoJob

Mount(v) ==
    LET key == FrameKey(v) IN
    IF key = frame.key
    THEN UNCHANGED <<frame, reports>>
    ELSE /\ frame' = [key |-> key, at |-> key.url, loaded |-> FALSE]
         /\ reports' = <<>>

(* A new navigation or target aborts a registration and starts another *)
Commit(t, s, urls) ==
    LET v == View(t, s, urls) IN
    /\ state' = s
    /\ prefs' = urls
    /\ page' = v
    /\ registering' = IF <<v.id, v.url, v.target>>
                            = <<page.id, page.url, page.target>>
                      THEN registering
                      ELSE Job(v)
    /\ Mount(v)

Rendered ==
    /\ page = View(page.target, state, prefs)
    /\ frame.key = FrameKey(page)

(* What the updates so far lead to, for the target on screen *)
Shown == Active(state, prefs[page.target])

SameOrigin(h, k) == h # <<>> => k # <<>> /\ Head(k) = Head(h)

(* A handler is overtaken when its page is behind the updates before it:   *)
(* it takes a place in the history, or a URL, that the preview has left    *)
(* (misled), or the default URL of its page makes it update another        *)
(* preview than the one it showed and the one that will be shown.          *)
Handle(misled) ==
    overtaken' = \/ overtaken
                 \/ misled
                 \/ [Base EXCEPT !.source = NoUrl] # [Shown EXCEPT !.source = NoUrl]
                 \/ Base.id < page.id
                 \/ ~SameOrigin(page.history, Base.history)

Bounded(s) == Len(s.history) <= MaxHistory /\ s.id <= MaxNav

-----------------------------------------------------------------------------
Init ==
    \E t \in Targets : \E urls \in Stored :
        /\ state = CreatePreviewState(urls[t])
        /\ prefs = urls
        /\ page = View(t, state, urls)
        /\ registered = NoJob
        /\ registering = Job(page)
        /\ clearing = None
        /\ frame = NoFrame
        /\ reports = <<>>
        /\ overtaken = FALSE

Render ==
    /\ ~Rendered
    /\ Commit(page.target, state, prefs)
    /\ UNCHANGED <<registered, clearing, overtaken>>

-----------------------------------------------------------------------------
(* The user; React renders before the next event *)

StoreUrl(url) == [prefs EXCEPT ![page.target] = url]

NavigateTo(url) ==
    LET next == Bind(Visit(Base, url), url) IN
    /\ url \in Site[page.target]
    /\ Bounded(next)
    /\ Commit(page.target, next, StoreUrl(url))
    /\ Handle(FALSE)
    /\ UNCHANGED <<registered, clearing>>

(* An address that is not of a local application is refused *)
RefuseUrl ==
    /\ Commit(page.target, [Base EXCEPT !.loading = FALSE], prefs)
    /\ Handle(FALSE)
    /\ UNCHANGED <<registered, clearing>>

(* Mistaken: back and forward are not stored *)
RunHistoryUnstored(i) ==
    /\ i \in {page.index - 1, page.index + 1} \cap DOMAIN page.history
    /\ LET next == [Bind(Base, page.history[i]) EXCEPT !.index = i] IN
       /\ Bounded(next)
       /\ Commit(page.target, next, prefs)
    /\ UNCHANGED <<registered, clearing, overtaken>>

(* The index to go to is that of the committed page *)
RunHistory(i) ==
    /\ i \in {page.index - 1, page.index + 1}
    /\ i \in DOMAIN page.history
    /\ LET url  == page.history[i]
           next == [Bind(Base, url) EXCEPT !.index = i] IN
       /\ Bounded(next)
       /\ Commit(page.target, next, StoreUrl(url))
       /\ Handle(i \notin DOMAIN Base.history \/ Base.history[i] # url)
    /\ UNCHANGED <<registered, clearing>>

RebindFrame(s) == Bind(s, CurrentUrl(s))

ReloadPreview ==
    /\ CurrentUrl(page) # NoUrl
    /\ Bounded(RebindFrame(Base))
    /\ Commit(page.target, RebindFrame(Base), prefs)
    /\ Handle(FALSE)
    /\ UNCHANGED <<registered, clearing>>

(* A hard reload, or clearing the cookies or the cache, first asks the     *)
(* frame to clear its storage                                              *)
HardReload ==
    /\ CurrentUrl(page) # NoUrl
    /\ clearing = None
    /\ clearing' = page.default
    /\ UNCHANGED <<state, prefs, page, registered, registering, frame, reports, overtaken>>

(* The page shows another target *)
SelectTarget(t) ==
    /\ t # page.target
    /\ Commit(t, state, prefs)
    /\ UNCHANGED <<registered, clearing, overtaken>>

(* The canvas or its Browser tab is closed and opened again: a new component *)
Reopen ==
    /\ state' = CreatePreviewState(prefs[page.target])
    /\ page' = View(page.target, state', prefs)
    /\ registered' = NoJob
    /\ registering' = Job(page')
    /\ clearing' = None
    /\ frame' = NoFrame
    /\ reports' = <<>>
    /\ overtaken' = FALSE
    /\ UNCHANGED prefs

-----------------------------------------------------------------------------
(* Messages and promises; React renders in a later task *)

Queue(s) ==
    /\ state' = s
    /\ UNCHANGED <<page, registering, frame>>

(* clearCurrentFrameStorage settles, by an ack or after two seconds; the   *)
(* closure still has the default URL of the click                          *)
StorageCleared ==
    /\ clearing # None
    /\ clearing' = None
    /\ LET next == RebindFrame(Active(state, clearing)) IN
       /\ Bounded(next)
       /\ state' = next
    /\ Handle(FALSE)
    /\ UNCHANGED <<prefs, page, registering, frame, registered, reports>>

(* recordFrameNavigation, for a message of the mounted frame *)
RecordFrameNavigation ==
    /\ reports # <<>>
    /\ reports' = Tail(reports)
    /\ LET url == Head(reports)
           at  == {i \in {Base.index - 1, Base.index + 1} \cap DOMAIN Base.history :
                      Base.history[i] = url}
           moved == IF CurrentUrl(Base) = url THEN Base
                    ELSE IF at # {} THEN [Base EXCEPT !.index = Min(at)]
                    ELSE Visit(Base, url) IN
       /\ Bounded(moved)
       /\ Queue([moved EXCEPT !.loading = FALSE])
       /\ prefs' = IF url # CurrentUrl(page) THEN StoreUrl(url) ELSE prefs
       /\ Handle(url = CurrentUrl(page) /\ url # CurrentUrl(Base))
    /\ UNCHANGED <<registered, clearing>>

Register ==
    /\ registering # NoJob
    /\ registering' = NoJob
    /\ registered' = registering
    /\ UNCHANGED <<state, prefs, page, clearing, frame, reports, overtaken>>

(* Mistaken: a failed registration leaves the indicator on *)
RegistrationFailsQuietly ==
    /\ registering # NoJob
    /\ registering' = NoJob
    /\ UNCHANGED <<state, prefs, page, registered, clearing, frame, reports, overtaken>>

RegistrationFails ==
    /\ registering # NoJob
    /\ registering' = NoJob
    /\ state' = [Base EXCEPT !.loading = FALSE]
    /\ UNCHANGED <<prefs, page, registered, clearing, frame, reports>>
    /\ Handle(FALSE)

-----------------------------------------------------------------------------
(* The application in the frame: it loads, perhaps redirects, and moves    *)

Report(url) == Append(reports, url)

FrameLoads(url) ==
    /\ frame.key # NoJob
    /\ ~frame.loaded
    /\ url \in Site[frame.key.target]
    /\ frame' = [frame EXCEPT !.at = url, !.loaded = TRUE]
    /\ reports' = Report(url)
    /\ state' = [Base EXCEPT !.loading = FALSE]
    /\ UNCHANGED <<prefs, page, registered, registering, clearing>>
    /\ Handle(FALSE)

FrameMoves(url) ==
    /\ frame.loaded
    /\ url \in Site[frame.key.target] \ {frame.at}
    /\ Len(reports) < MaxReports
    /\ frame' = [frame EXCEPT !.at = url]
    /\ reports' = Report(url)
    /\ UNCHANGED <<state, prefs, page, registered, registering, clearing, overtaken>>

-----------------------------------------------------------------------------
Next ==
    \/ Render
    \/ \E url \in Urls : NavigateTo(url) \/ FrameLoads(url) \/ FrameMoves(url)
    \/ RefuseUrl
    \/ \E i \in 1..MaxHistory : RunHistory(i)
    \/ ReloadPreview
    \/ HardReload
    \/ \E t \in Targets : SelectTarget(t)
    \/ Reopen
    \/ StorageCleared
    \/ RecordFrameNavigation
    \/ Register
    \/ RegistrationFails

Spec == Init /\ [][Next]_vars

(* React renders what was queued, a registration settles, and an iframe    *)
(* loads (an error page, at worst); its reports may wait for ever          *)
Fairness ==
    /\ WF_vars(Render)
    /\ WF_vars(Register \/ RegistrationFails)
    /\ WF_vars(\E url \in Urls : FrameLoads(url))

LiveSpec == Spec /\ Fairness

-----------------------------------------------------------------------------
(* Properties *)

PreviewStates ==
    [history : Seq(Urls), index : Nat, loading : BOOLEAN,
     id : 0..MaxNav, url : Urls \cup {NoUrl}, source : Urls \cup {NoUrl}]

(* The variables have their types, and while no handler is overtaken the  *)
(* index points into the history or is the -1 of an empty one.             *)
TypeOK ==
    /\ state \in PreviewStates
    /\ ~overtaken => /\ state.index \in 0..Len(state.history)
                     /\ (state.index = 0) = (state.history = <<>>)
    /\ prefs \in [Targets -> Urls \cup {NoUrl}]
    /\ page.target \in Targets
    /\ clearing \in Urls \cup {NoUrl, None}
    /\ Len(reports) <= MaxReports

(* "Persist last Browser URL per Canvas target": once React has rendered,  *)
(* the preview shows the URL stored for the target it is about, however    *)
(* the echo, the bridge, the history and the switches interleaved, unless  *)
(* a handler was overtaken since the canvas opened.                        *)
StoredUrlIsShown ==
    Rendered /\ ~overtaken => prefs[page.target] = CurrentUrl(page)

(* The bridge "is the source of truth for the address bar": when nothing   *)
(* is left to handle, the address bar shows where the application is, also *)
(* after redirects and its own back and forward, and after several reports *)
(* in one render, unless a handler was overtaken.                          *)
AddressBarIsTrue ==
    Rendered /\ ~overtaken /\ reports = <<>> /\ frame.loaded
        => frame.at = CurrentUrl(page)

(* "adopt it without resetting state - resetting would ... wipe history":  *)
(* while the canvas stays on a target, navigations, reports and their      *)
(* echoes keep the history, rendered one by one or together.  Excepted are *)
(* an overtaken handler and a clearing that closed over an older URL.      *)
HistoryIsKept ==
    [][\/ page'.target # page.target
       \/ Reopen
       \/ StorageCleared /\ clearing # page.default
       \/ overtaken'
       \/ SameOrigin(Shown.history, Shown'.history)]_vars

(* The same comment as it is written: a report of the frame never wipes    *)
(* the history, also when React renders it together with the one before.   *)
ReportsKeepHistory ==
    [][RecordFrameNavigation => SameOrigin(Shown.history, Shown'.history)]_vars

(* A loading indicator does not stay: the frame loads, or the registration *)
(* fails, or the user moves on to another target, unless a handler was     *)
(* overtaken: it can start a navigation that has the id of the one before. *)
LoadingEnds ==
    \A t \in Targets : []<>(page.target = t => ~page.loading \/ overtaken)
=============================================================================
