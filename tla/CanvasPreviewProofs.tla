------------------------ MODULE CanvasPreviewProofs ------------------------
(***************************************************************************)
(* Proofs about CanvasPreview for any number of targets, pages, history    *)
(* entries and reports, and for applications that share pages or have none *)
(* stored: its types, and that the history is kept.                        *)
(***************************************************************************)
EXTENDS CanvasPreview, TLAPS

AnyUrl == Urls \cup {NoUrl}

WellIndexed(s) ==
    s.index \in 0..Len(s.history) /\ (s.index = 0) = (s.history = <<>>)

-----------------------------------------------------------------------------
(* What the operators on preview states return *)

LEMMA CurrentUrlIsUrl ==
    ASSUME NEW s, s.history \in Seq(Urls)
    PROVE  CurrentUrl(s) \in AnyUrl /\ (CurrentUrl(s) # NoUrl => s.index \in DOMAIN s.history)
BY DEF CurrentUrl, AnyUrl

\* The first page of a preview is its default URL, if it has one.
LEMMA Created ==
    ASSUME NEW d \in AnyUrl
    PROVE  LET c == CreatePreviewState(d) IN
           /\ c \in PreviewStates
           /\ c.source = d /\ c.url = d /\ c.id = 0
           /\ CurrentUrl(c) = d
           /\ WellIndexed(c)
           /\ \A i \in DOMAIN c.history : c.history[i] = d /\ d # NoUrl
<1> DEFINE c == CreatePreviewState(d)
<1>1. /\ c.source = d /\ c.url = d /\ c.id = 0 /\ c.loading = FALSE
      /\ c.history = IF d = NoUrl THEN <<>> ELSE <<d>>
      /\ c.index = IF d = NoUrl THEN 0 ELSE 1
      /\ c = [history |-> c.history, index |-> c.index, loading |-> c.loading,
              id |-> c.id, url |-> c.url, source |-> c.source]
  BY DEF CreatePreviewState
<1> HIDE DEF c
<1>2. c.history \in Seq(Urls) /\ c.index \in Nat /\ 0 \in 0..MaxNav
  BY <1>1, PreviewAssumption DEF AnyUrl
<1>3. c \in PreviewStates
  BY <1>1, <1>2 DEF PreviewStates, AnyUrl
<1>4. CASE d = NoUrl
  <2>1. c.history = <<>> /\ c.index = 0
    BY <1>1, <1>4
  <2> QED
    BY <1>1, <1>3, <1>4, <2>1 DEF c, CurrentUrl, WellIndexed
<1>5. CASE d # NoUrl
  <2>1. c.history = <<d>> /\ c.index = 1 /\ Len(<<d>>) = 1 /\ DOMAIN <<d>> = {1}
    BY <1>1, <1>5
  <2>2. CurrentUrl(c) = d /\ WellIndexed(c)
    BY <2>1 DEF CurrentUrl, WellIndexed
  <2> QED
    BY <1>1, <1>3, <1>5, <2>1, <2>2 DEF c
<1> QED
  BY <1>4, <1>5

\* The state a handler starts from is of its page's default URL: it is the
\* old one, or that with the echo adopted, or a new one.
LEMMA Activated ==
    ASSUME NEW s \in PreviewStates, NEW d \in AnyUrl
    PROVE  LET v == Active(s, d) IN
           /\ v \in PreviewStates
           /\ v.source = d
           /\ \/ /\ s.source = d \/ (d # NoUrl /\ d = CurrentUrl(s))
                 /\ v.history = s.history /\ v.index = s.index
                 /\ v.url = s.url /\ v.id = s.id
              \/ /\ s.source # d
                 /\ ~(d # NoUrl /\ d = CurrentUrl(s))
                 /\ v = CreatePreviewState(d)
<1>1. CASE s.source = d
  BY <1>1 DEF Active
<1>2. CASE s.source # d /\ d # NoUrl /\ d = CurrentUrl(s)
  <2>1. Active(s, d) = [s EXCEPT !.source = d]
    BY <1>2 DEF Active
  <2> QED
    BY <1>2, <2>1 DEF PreviewStates, AnyUrl
<1>3. CASE s.source # d /\ ~(d # NoUrl /\ d = CurrentUrl(s))
  <2>1. Active(s, d) = CreatePreviewState(d)
    BY <1>3, Zenon DEF Active
  <2> QED
    BY <1>3, <2>1, Created
<1> QED
  BY <1>1, <1>2, <1>3

LEMMA ActiveIsIndexed ==
    ASSUME NEW s \in PreviewStates, NEW d \in AnyUrl, WellIndexed(s)
    PROVE  WellIndexed(Active(s, d))
BY Activated, Created DEF WellIndexed

\* A preview shows its default URL if the state that has that URL does.
LEMMA ActiveShows ==
    ASSUME NEW s \in PreviewStates, NEW d \in AnyUrl, s.source = d => CurrentUrl(s) = d
    PROVE  CurrentUrl(Active(s, d)) = d
BY Activated, Created DEF CurrentUrl

LEMMA Visited ==
    ASSUME NEW s \in PreviewStates, NEW url \in Urls
    PROVE  LET v == Visit(s, url) IN
           /\ v \in PreviewStates
           /\ v.source = s.source /\ v.id = s.id /\ v.url = s.url
           /\ \A i \in DOMAIN v.history :
                 v.history[i] = url \/ \E j \in DOMAIN s.history : v.history[i] = s.history[j]
           /\ WellIndexed(s) =>
                 /\ WellIndexed(v)
                 /\ CurrentUrl(v) = url
                 /\ SameOrigin(s.history, v.history)
<1> DEFINE h == s.history
           n == Min({s.index, Len(h)})
           v == Visit(s, url)
<1>1. h \in Seq(Urls) /\ s.index \in Nat /\ Len(h) \in Nat
  BY DEF PreviewStates
<1>2. n \in {s.index, Len(h)} /\ n <= s.index /\ n <= Len(h)
  <2>1. \E x \in {s.index, Len(h)} : \A y \in {s.index, Len(h)} : x <= y
    BY <1>1
  <2>2. n \in {s.index, Len(h)} /\ \A y \in {s.index, Len(h)} : n <= y
    BY <2>1, Zenon DEF Min
  <2> QED
    BY <2>2
<1>3. /\ v = [s EXCEPT !.history = Append(SubSeq(h, 1, n), url), !.index = s.index + 1]
  BY DEF Visit
<1> HIDE DEF v, n
<1>4. n \in 0..Len(h)
  BY <1>1, <1>2
<1>5. /\ SubSeq(h, 1, n) \in Seq(Urls) /\ Len(SubSeq(h, 1, n)) = n
      /\ \A i \in 1..n : SubSeq(h, 1, n)[i] = h[i]
  BY <1>1, <1>4
<1>6. /\ v.history \in Seq(Urls) /\ Len(v.history) = n + 1
      /\ v.history[n + 1] = url
      /\ \A i \in 1..n : v.history[i] = h[i]
      /\ v.index = s.index + 1 /\ v.source = s.source /\ v.id = s.id /\ v.url = s.url
  BY <1>3, <1>4, <1>5 DEF PreviewStates
<1>7. v \in PreviewStates
  <2>1. v = [history |-> v.history, index |-> v.index, loading |-> s.loading,
             id |-> s.id, url |-> s.url, source |-> s.source]
    <3>1. s = [history |-> s.history, index |-> s.index, loading |-> s.loading,
               id |-> s.id, url |-> s.url, source |-> s.source]
      BY DEF PreviewStates
    <3> QED
      BY <1>3, <3>1
  <2>2. v.index \in Nat
    BY <1>1, <1>6
  <2> QED
    BY <1>6, <2>1, <2>2 DEF PreviewStates
<1>8. ASSUME NEW i \in DOMAIN v.history
      PROVE  v.history[i] = url \/ \E j \in DOMAIN h : v.history[i] = h[j]
  <2>1. i \in 1..(n + 1) /\ DOMAIN h = 1..Len(h)
    BY <1>1, <1>6
  <2>2. i = n + 1 \/ i \in 1..n
    BY <1>4, <2>1
  <2>3. 1..n \subseteq 1..Len(h)
    BY <1>4
  <2> QED
    BY <1>6, <2>1, <2>2, <2>3
<1>9. ASSUME WellIndexed(s)
      PROVE  WellIndexed(v) /\ CurrentUrl(v) = url /\ SameOrigin(h, v.history)
  <2>1. n = s.index /\ v.index = n + 1
    BY <1>2, <1>6, <1>9, <1>1 DEF WellIndexed
  <2>2. WellIndexed(v)
    BY <1>4, <1>6, <2>1 DEF WellIndexed
  <2>3. CurrentUrl(v) = url
    BY <1>4, <1>6, <2>1 DEF CurrentUrl
  <2>4. SameOrigin(h, v.history)
    <3> SUFFICES ASSUME h # <<>> PROVE v.history # <<>> /\ Head(v.history) = Head(h)
      BY DEF SameOrigin
    <3>1. n >= 1
      BY <1>1, <1>4, <1>9, <2>1 DEF WellIndexed
    <3>2. v.history[1] = h[1] /\ v.history # <<>>
      BY <1>4, <1>6, <3>1
    <3> QED
      BY <1>1, <1>6, <3>2
  <2> QED
    BY <2>2, <2>3, <2>4
<1> QED
  BY <1>6, <1>7, <1>8, <1>9 DEF v

LEMMA Bound ==
    ASSUME NEW s \in PreviewStates, NEW url \in AnyUrl, Bind(s, url).id <= MaxNav
    PROVE  LET v == Bind(s, url) IN
           /\ v \in PreviewStates
           /\ v.history = s.history /\ v.index = s.index /\ v.source = s.source
           /\ v.url = url /\ v.id = s.id + 1
<1>1. /\ Bind(s, url).id = s.id + 1 /\ s.id \in Nat
      /\ Bind(s, url) = [s EXCEPT !.loading = TRUE, !.id = s.id + 1, !.url = url]
  BY PreviewAssumption DEF Bind, PreviewStates
<1>2. s.id + 1 \in 0..MaxNav
  BY <1>1, PreviewAssumption
<1> QED
  BY <1>1, <1>2 DEF PreviewStates, AnyUrl

\* The indicator and the index are changed alone.
LEMMA IndicatorSet ==
    ASSUME NEW s \in PreviewStates, NEW v, v = [s EXCEPT !.loading = FALSE]
    PROVE  /\ v \in PreviewStates
           /\ v.history = s.history /\ v.index = s.index
           /\ v.url = s.url /\ v.id = s.id /\ v.source = s.source
BY DEF PreviewStates

LEMMA IndexSet ==
    ASSUME NEW s \in PreviewStates, NEW i \in Nat, NEW v, v = [s EXCEPT !.index = i]
    PROVE  /\ v \in PreviewStates
           /\ v.history = s.history /\ v.index = i
           /\ v.url = s.url /\ v.id = s.id /\ v.source = s.source
BY DEF PreviewStates

-----------------------------------------------------------------------------
(* The types                                                               *)

Jobs == [id : 0..MaxNav, url : AnyUrl, target : Targets \cup {None}]

Views == [target : Targets, default : AnyUrl, history : Seq(Urls), index : Nat,
          loading : BOOLEAN, id : 0..MaxNav, url : AnyUrl]

Frames == [key : Jobs, at : AnyUrl, loaded : BOOLEAN]

Typed ==
    /\ state \in PreviewStates
    /\ prefs \in [Targets -> AnyUrl]
    /\ page \in Views
    /\ registered \in Jobs
    /\ registering \in Jobs
    /\ clearing \in AnyUrl \cup {None}
    /\ frame \in Frames
    /\ reports \in Seq(Urls)

(* Only a document that has loaded reports, and only a keyed frame loads.  *)
FrameReports ==
    /\ ~frame.loaded => reports = <<>>
    /\ frame.key = NoJob => ~frame.loaded

TypeInv ==
    /\ Typed
    /\ Len(reports) <= MaxReports
    /\ FrameReports
    /\ ~overtaken => WellIndexed(state)

LEMMA TypeInvImplies == TypeInv => TypeOK
BY DEF TypeInv, Typed, TypeOK, WellIndexed, Views, AnyUrl

LEMMA NoJobIsJob == NoJob \in Jobs /\ NoFrame \in Frames
BY PreviewAssumption DEF NoJob, NoFrame, Jobs, Frames, AnyUrl, None

LEMMA Viewed ==
    ASSUME NEW t \in Targets, NEW s \in PreviewStates, NEW urls \in [Targets -> AnyUrl]
    PROVE  LET v == View(t, s, urls)
               b == Active(s, urls[t]) IN
           /\ v \in Views
           /\ v.target = t /\ v.default = urls[t]
           /\ v.history = b.history /\ v.index = b.index /\ v.loading = b.loading
           /\ v.id = b.id /\ v.url = b.url
           /\ CurrentUrl(v) = CurrentUrl(b)
<1> DEFINE b == Active(s, urls[t])
<1>1. b \in PreviewStates /\ urls[t] \in AnyUrl
  BY Activated
<1>2. View(t, s, urls) =
        [target |-> t, default |-> urls[t], history |-> b.history,
         index |-> b.index, loading |-> b.loading, id |-> b.id, url |-> b.url]
  BY DEF View
<1> HIDE DEF b
<1>3. View(t, s, urls) \in Views
  BY <1>1, <1>2 DEF Views, PreviewStates, AnyUrl
<1> QED
  BY <1>2, <1>3 DEF CurrentUrl, b

LEMMA Jobbed ==
    ASSUME NEW v \in Views
    PROVE  /\ Job(v) \in Jobs
           /\ Job(v) # NoJob => /\ v.url # NoUrl
                                /\ Job(v).url = v.url /\ Job(v).target = v.target
BY NoJobIsJob DEF Views, Job, Jobs, AnyUrl

LEMMA Keyed ==
    ASSUME NEW v \in Views, registered \in Jobs
    PROVE  /\ FrameKey(v) \in Jobs
           /\ FrameKey(v) # NoJob => /\ FrameKey(v).id = v.id
                                     /\ FrameKey(v).target = registered.target
                                     /\ FrameKey(v).url = v.url
                                     /\ registered.url = v.url
                                     /\ registered # NoJob
BY NoJobIsJob DEF Views, FrameKey, Jobs, AnyUrl

LEMMA Mounted ==
    ASSUME TypeInv, NEW v \in Views, Mount(v)
    PROVE  /\ frame' \in Frames /\ reports' \in Seq(Urls) /\ Len(reports') <= MaxReports
           /\ frame'.key = FrameKey(v)
           /\ \/ FrameKey(v) = frame.key /\ frame' = frame /\ reports' = reports
              \/ ~frame'.loaded /\ reports' = <<>>
           /\ FrameReports'
<1>1. FrameKey(v) \in Jobs
  BY Keyed DEF TypeInv, Typed
<1>2. CASE FrameKey(v) = frame.key
  BY <1>2 DEF Mount, TypeInv, Typed, FrameReports
<1>3. CASE FrameKey(v) # frame.key
  <2>1. frame' = [key |-> FrameKey(v), at |-> FrameKey(v).url, loaded |-> FALSE]
        /\ reports' = <<>>
    BY <1>3, Zenon DEF Mount
  <2>2. FrameKey(v).url \in AnyUrl
    BY <1>1 DEF Jobs
  <2>3. frame' \in Frames /\ frame'.key = FrameKey(v) /\ frame'.loaded = FALSE
    BY <1>1, <2>1, <2>2 DEF Frames
  <2> QED
    BY <2>1, <2>3, PreviewAssumption DEF FrameReports
<1> QED
  BY <1>2, <1>3

-----------------------------------------------------------------------------
(* What the handlers make of the state of the preview                      *)

LEMMA BaseTyped ==
    ASSUME TypeInv
    PROVE  /\ Base \in PreviewStates
           /\ Base.source = page.default
           /\ ~overtaken => WellIndexed(Base)
BY Activated, ActiveIsIndexed DEF Base, TypeInv, Typed, Views

(* A handler that is not overtaken updates the preview that is shown.      *)
LEMMA Handled ==
    ASSUME TypeInv, NEW misled, Handle(misled), ~overtaken'
    PROVE  /\ ~overtaken /\ ~misled
           /\ Base.history = Shown.history /\ Base.index = Shown.index
           /\ CurrentUrl(Base) = CurrentUrl(Shown)
<1>1. /\ ~overtaken /\ ~misled
      /\ [Base EXCEPT !.source = NoUrl] = [Shown EXCEPT !.source = NoUrl]
  BY Zenon DEF Handle
<1>2. Base \in PreviewStates /\ Shown \in PreviewStates
  BY BaseTyped, Activated DEF Shown, TypeInv, Typed, Views
<1> DEFINE b == [Base EXCEPT !.source = NoUrl]
           w == [Shown EXCEPT !.source = NoUrl]
<1>3. /\ b.history = Base.history /\ b.index = Base.index
      /\ w.history = Shown.history /\ w.index = Shown.index
  BY <1>2 DEF PreviewStates
<1>4. b = w
  BY <1>1
<1> HIDE DEF b, w
<1> QED
  BY <1>1, <1>3, <1>4 DEF CurrentUrl

LEMMA Stopped ==
    ASSUME TypeInv, NEW next, next = [Base EXCEPT !.loading = FALSE]
    PROVE  /\ next \in PreviewStates
           /\ next.source = page.default
           /\ next.history = Base.history /\ next.index = Base.index
           /\ next.url = Base.url /\ next.id = Base.id
           /\ CurrentUrl(next) = CurrentUrl(Base)
           /\ ~overtaken => WellIndexed(next)
<1>1. /\ next \in PreviewStates /\ next.source = Base.source
      /\ next.history = Base.history /\ next.index = Base.index
      /\ next.url = Base.url /\ next.id = Base.id
  BY BaseTyped, IndicatorSet
<1> QED
  BY <1>1, BaseTyped DEF WellIndexed, CurrentUrl

LEMMA Rebound ==
    ASSUME NEW s \in PreviewStates, Bounded(RebindFrame(s))
    PROVE  LET next == RebindFrame(s) IN
           /\ next \in PreviewStates
           /\ next.history = s.history /\ next.index = s.index /\ next.source = s.source
           /\ next.url = CurrentUrl(s) /\ next.id = s.id + 1
           /\ CurrentUrl(next) = CurrentUrl(s)
           /\ WellIndexed(s) => WellIndexed(next)
<1>1. s.history \in Seq(Urls)
  BY DEF PreviewStates
<1>2. CurrentUrl(s) \in AnyUrl
  BY <1>1, CurrentUrlIsUrl
<1>3. Bind(s, CurrentUrl(s)).id <= MaxNav
  BY DEF Bounded, RebindFrame
<1> QED
  BY <1>2, <1>3, Bound DEF RebindFrame, WellIndexed, CurrentUrl

LEMMA Navigated ==
    ASSUME TypeInv, NEW url \in Urls, Bounded(Bind(Visit(Base, url), url))
    PROVE  LET next == Bind(Visit(Base, url), url) IN
           /\ next \in PreviewStates
           /\ next.source = page.default /\ next.url = url /\ next.id = Base.id + 1
           /\ \A i \in DOMAIN next.history :
                 \/ next.history[i] = url
                 \/ \E j \in DOMAIN Base.history : next.history[i] = Base.history[j]
           /\ ~overtaken => /\ WellIndexed(next)
                        /\ CurrentUrl(next) = url
                        /\ SameOrigin(Base.history, next.history)
<1> DEFINE v == Visit(Base, url)
           next == Bind(v, url)
<1>1. v \in PreviewStates /\ next.id <= MaxNav /\ url \in AnyUrl
  BY BaseTyped, Visited DEF Bounded, AnyUrl
<1>2. /\ next \in PreviewStates
      /\ next.history = v.history /\ next.index = v.index /\ next.source = v.source
      /\ next.url = url /\ next.id = v.id + 1
  BY <1>1, Bound
<1>3. /\ v.source = page.default /\ v.id = Base.id
      /\ \A i \in DOMAIN v.history :
            v.history[i] = url \/ \E j \in DOMAIN Base.history : v.history[i] = Base.history[j]
  BY BaseTyped, Visited
<1>4. ~overtaken => WellIndexed(v) /\ CurrentUrl(v) = url /\ SameOrigin(Base.history, v.history)
  BY BaseTyped, Visited
<1> HIDE DEF v, next
<1>5. ~overtaken => WellIndexed(next) /\ CurrentUrl(next) = url
  BY <1>2, <1>4 DEF WellIndexed, CurrentUrl
<1>6. next.source = page.default /\ next.id = Base.id + 1
  BY <1>2, <1>3
<1> QED
  BY <1>2, <1>3, <1>4, <1>5, <1>6 DEF next, v

LEMMA HistoryRun ==
    ASSUME TypeInv, NEW i \in DOMAIN page.history,
           NEW next, next = [Bind(Base, page.history[i]) EXCEPT !.index = i],
           Bounded(next)
    PROVE  /\ next \in PreviewStates
           /\ next.source = page.default /\ next.id = Base.id + 1
           /\ next.url = page.history[i] /\ page.history[i] \in Urls
           /\ next.history = Base.history
           /\ i \in DOMAIN Base.history /\ Base.history[i] = page.history[i] =>
                 WellIndexed(next) /\ CurrentUrl(next) = next.url
<1> DEFINE url == page.history[i]
           b == Bind(Base, url)
<1>1. page.history \in Seq(Urls) /\ url \in Urls /\ i \in Nat /\ i # 0
  BY DEF TypeInv, Typed, Views
<1>2. Base \in PreviewStates /\ Base.source = page.default
  BY BaseTyped
<1>3. b.id = Base.id + 1 /\ next = [b EXCEPT !.index = i] /\ next.id <= MaxNav
  BY <1>2 DEF Bind, Bounded, PreviewStates
<1>4. next.id = b.id
  BY <1>2 DEF Bind, PreviewStates
<1>5. b.id <= MaxNav /\ url \in AnyUrl
  BY <1>1, <1>3, <1>4 DEF AnyUrl
<1>6. /\ b \in PreviewStates
      /\ b.history = Base.history /\ b.source = Base.source /\ b.url = url
  BY <1>2, <1>5, Bound
<1> HIDE DEF b, url
<1>7. /\ next \in PreviewStates /\ next.history = b.history /\ next.index = i
      /\ next.url = url /\ next.source = b.source
  <2>1. next = [b EXCEPT !.index = i] /\ b \in PreviewStates /\ i \in Nat
    BY <1>1, <1>3, <1>6
  <2>2. /\ next \in PreviewStates /\ next.history = b.history /\ next.index = i
        /\ next.url = b.url /\ next.source = b.source
    BY <2>1 DEF PreviewStates
  <2> QED
    BY <1>6, <2>2
<1>8. ASSUME i \in DOMAIN Base.history, Base.history[i] = url
      PROVE  WellIndexed(next) /\ CurrentUrl(next) = url
  <2>1. next.history = Base.history /\ next.index = i
    BY <1>6, <1>7
  <2>2. Base.history \in Seq(Urls)
    BY <1>2 DEF PreviewStates
  <2>3. i \in 1..Len(Base.history) /\ Base.history # <<>>
    BY <1>8, <2>2
  <2> QED
    BY <1>8, <2>1, <2>2, <2>3 DEF WellIndexed, CurrentUrl
<1> QED
  BY <1>1, <1>2, <1>3, <1>4, <1>6, <1>7, <1>8 DEF url

(* A message of the frame: the preview is where it reports to be.          *)
LEMMA Recorded ==
    ASSUME TypeInv, RecordFrameNavigation
    PROVE  LET url == Head(reports) IN
           /\ reports # <<>>
           /\ Handle(url = CurrentUrl(page) /\ url # CurrentUrl(Base))
           /\ url \in Urls /\ url = reports[1]
           /\ reports' = Tail(reports)
           /\ state' \in PreviewStates
           /\ state'.source = page.default
           /\ state'.url = Base.url /\ state'.id = Base.id
           /\ \A i \in DOMAIN state'.history :
                 \/ state'.history[i] = url
                 \/ \E j \in DOMAIN Base.history : state'.history[i] = Base.history[j]
           /\ url = CurrentUrl(Base) =>
                 state'.history = Base.history /\ state'.index = Base.index
           /\ ~overtaken => /\ WellIndexed(state')
                        /\ CurrentUrl(state') = url
                        /\ SameOrigin(Base.history, state'.history)
           /\ prefs' = IF url # CurrentUrl(page) THEN StoreUrl(url) ELSE prefs
           /\ UNCHANGED <<page, registered, registering, clearing, frame>>
<1> DEFINE url == Head(reports)
           at == {i \in {Base.index - 1, Base.index + 1} \cap DOMAIN Base.history :
                     Base.history[i] = url}
           moved == IF CurrentUrl(Base) = url THEN Base
                    ELSE IF at # {} THEN [Base EXCEPT !.index = Min(at)]
                    ELSE Visit(Base, url)
<1>1. /\ reports # <<>> /\ reports' = Tail(reports)
      /\ Handle(url = CurrentUrl(page) /\ url # CurrentUrl(Base))
      /\ Bounded(moved)
      /\ state' = [moved EXCEPT !.loading = FALSE]
      /\ prefs' = IF url # CurrentUrl(page) THEN StoreUrl(url) ELSE prefs
      /\ UNCHANGED <<page, registered, registering, clearing, frame>>
  BY DEF RecordFrameNavigation, Queue
<1>2. reports \in Seq(Urls)
  BY DEF TypeInv, Typed
<1>3. url \in Urls /\ url = reports[1]
  BY <1>1, <1>2
<1>4. /\ Base \in PreviewStates /\ Base.source = page.default
      /\ ~overtaken => WellIndexed(Base)
  BY BaseTyped
<1> DEFINE Moves(m) ==
        /\ m \in PreviewStates
        /\ m.source = page.default /\ m.url = Base.url /\ m.id = Base.id
        /\ \A i \in DOMAIN m.history :
              \/ m.history[i] = url
              \/ \E j \in DOMAIN Base.history : m.history[i] = Base.history[j]
        /\ url = CurrentUrl(Base) => m.history = Base.history /\ m.index = Base.index
        /\ ~overtaken => /\ WellIndexed(m)
                     /\ CurrentUrl(m) = url
                     /\ SameOrigin(Base.history, m.history)
<1>5. ASSUME CurrentUrl(Base) = url PROVE Moves(moved)
  <2>1. moved = Base
    BY <1>5
  <2> HIDE DEF moved, at, url
  <2>2. Moves(Base)
    BY <1>4, <1>5 DEF SameOrigin
  <2> QED
    BY <2>1, <2>2
<1>6. ASSUME CurrentUrl(Base) # url, at # {} PROVE Moves(moved)
  <2> DEFINE n == Min(at)
  <2>1. moved = [Base EXCEPT !.index = n]
    BY <1>6
  <2>2. Base.index \in Nat /\ Base.history \in Seq(Urls)
    BY <1>4 DEF PreviewStates
  <2>3. PICK x \in at : \A y \in at : x <= y
    <3>1. at \subseteq {Base.index - 1, Base.index + 1} /\ at # {}
      BY <1>6
    <3> HIDE DEF at
    <3>2. \A y \in at : y = Base.index - 1 \/ y = Base.index + 1
      BY <3>1
    <3>3. CASE Base.index - 1 \in at
      <4>1. \A y \in at : Base.index - 1 <= y
        BY <2>2, <3>2
      <4> QED
        BY <3>3, <4>1
    <3>4. CASE Base.index - 1 \notin at
      <4>1. \A y \in at : y = Base.index + 1
        BY <3>2, <3>4
      <4>2. PICK x \in at : TRUE
        BY <3>1
      <4>3. \A y \in at : x <= y
        BY <2>2, <4>1, <4>2
      <4> QED
        BY <4>2, <4>3
    <3> QED
      BY <3>3, <3>4
  <2>4. n \in at
    BY <2>3, Zenon DEF Min
  <2> HIDE DEF n
  <2>5. n \in DOMAIN Base.history /\ Base.history[n] = url
    BY <2>4
  <2>6. n \in Nat /\ n # 0 /\ n <= Len(Base.history)
    BY <2>2, <2>5
  <2> HIDE DEF moved, at, url
  <2>7. /\ moved \in PreviewStates
        /\ moved.history = Base.history /\ moved.index = n
        /\ moved.url = Base.url /\ moved.id = Base.id /\ moved.source = Base.source
    BY <1>4, <2>1, <2>6 DEF PreviewStates
  <2>8. ~overtaken => WellIndexed(moved) /\ CurrentUrl(moved) = url
    BY <1>4, <2>2, <2>5, <2>6, <2>7 DEF WellIndexed, CurrentUrl
  <2>9. /\ SameOrigin(Base.history, moved.history)
        /\ \A i \in DOMAIN moved.history :
              \E j \in DOMAIN Base.history : moved.history[i] = Base.history[j]
    BY <2>7 DEF SameOrigin
  <2> QED
    BY <1>4, <1>6, <2>7, <2>8, <2>9 DEF url
<1>7. ASSUME CurrentUrl(Base) # url, at = {} PROVE Moves(moved)
  <2>1. moved = Visit(Base, url)
    BY <1>7
  <2> HIDE DEF moved, at, url
  <2>2. Moves(Visit(Base, url))
    BY <1>3, <1>4, <1>7, Visited DEF url
  <2> QED
    BY <2>1, <2>2
<1>8. Moves(moved)
  <2> HIDE DEF moved, at, url, Moves
  <2> QED
    BY <1>5, <1>6, <1>7
<1> HIDE DEF moved, at, url
<1>9. /\ state' \in PreviewStates
      /\ state'.history = moved.history /\ state'.index = moved.index
      /\ state'.url = moved.url /\ state'.id = moved.id /\ state'.source = moved.source
  BY <1>1, <1>8 DEF PreviewStates
<1>10. ~overtaken => WellIndexed(state') /\ CurrentUrl(state') = url
  BY <1>8, <1>9 DEF WellIndexed, CurrentUrl
<1>11. /\ state'.source = page.default /\ state'.url = Base.url /\ state'.id = Base.id
       /\ \A i \in DOMAIN state'.history :
              \/ state'.history[i] = url
              \/ \E j \in DOMAIN Base.history : state'.history[i] = Base.history[j]
       /\ url = CurrentUrl(Base) =>
              state'.history = Base.history /\ state'.index = Base.index
       /\ ~overtaken => SameOrigin(Base.history, state'.history)
  BY <1>8, <1>9
<1> QED
  BY <1>1, <1>3, <1>9, <1>10, <1>11 DEF url

-----------------------------------------------------------------------------
(* The types hold                                                          *)

LEMMA UrlStored ==
    ASSUME TypeInv, NEW url \in Urls
    PROVE  /\ StoreUrl(url) \in [Targets -> AnyUrl]
           /\ StoreUrl(url)[page.target] = url
           /\ \A t \in Targets : t # page.target => StoreUrl(url)[t] = prefs[t]
BY DEF StoreUrl, TypeInv, Typed, Views, AnyUrl

LEMMA Committed ==
    ASSUME TypeInv, NEW t \in Targets, NEW s \in PreviewStates,
           NEW urls \in [Targets -> AnyUrl],
           Commit(t, s, urls), UNCHANGED <<registered, clearing>>,
           ~overtaken' => WellIndexed(s)
    PROVE  TypeInv'
<1>1. View(t, s, urls) \in Views
  BY Viewed
<1>2. /\ state' = s /\ prefs' = urls /\ page' = View(t, s, urls)
      /\ registering' \in {registering, Job(View(t, s, urls))}
      /\ Mount(View(t, s, urls))
  BY Zenon DEF Commit
<1>3. /\ frame' \in Frames /\ reports' \in Seq(Urls) /\ Len(reports') <= MaxReports
      /\ FrameReports'
  BY <1>1, <1>2, Mounted
<1>4. registering' \in Jobs
  BY <1>1, <1>2, Jobbed DEF TypeInv, Typed
<1>5. Typed'
  BY <1>1, <1>2, <1>3, <1>4 DEF TypeInv, Typed
<1> QED
  BY <1>2, <1>3, <1>5 DEF TypeInv

LEMMA InitTypes == Init => TypeInv
<1> SUFFICES ASSUME Init PROVE TypeInv
  OBVIOUS
<1>1. PICK t \in Targets, urls \in Stored :
        /\ state = CreatePreviewState(urls[t])
        /\ prefs = urls
        /\ page = View(t, state, urls)
        /\ registered = NoJob
        /\ registering = Job(page)
        /\ clearing = None
        /\ frame = NoFrame
        /\ reports = <<>>
  BY DEF Init
<1> SUFFICES prefs \in [Targets -> AnyUrl]
  <2>1. prefs[t] \in AnyUrl
    BY <1>1
  <2>2. state \in PreviewStates /\ WellIndexed(state)
    BY <1>1, <2>1, Created
  <2>3. page \in Views
    BY <1>1, <2>2, Viewed
  <2>4. registering \in Jobs /\ registered \in Jobs /\ frame \in Frames
    BY <1>1, <2>3, Jobbed, NoJobIsJob
  <2>5. Len(reports) <= MaxReports /\ reports \in Seq(Urls) /\ ~frame.loaded
    BY <1>1, PreviewAssumption DEF NoFrame
  <2> QED
    BY <1>1, <2>1, <2>2, <2>3, <2>4, <2>5 DEF TypeInv, Typed, FrameReports
<1> QED
  BY <1>1, PreviewAssumption DEF AnyUrl

LEMMA RunOf ==
    ASSUME TypeInv, NEW i, RunHistory(i)
    PROVE  \E next :
              /\ i \in DOMAIN page.history
              /\ Handle(i \notin DOMAIN Base.history \/ Base.history[i] # page.history[i])
              /\ next = [Bind(Base, page.history[i]) EXCEPT !.index = i]
              /\ Bounded(next)
              /\ Commit(page.target, next, StoreUrl(page.history[i]))
              /\ UNCHANGED <<registered, clearing>>
BY DEF RunHistory

LEMMA NextTypes == TypeInv /\ [Next]_vars => TypeInv'
<1> SUFFICES ASSUME TypeInv, [Next]_vars PROVE TypeInv'
  OBVIOUS
<1>0. /\ page.target \in Targets /\ page.default \in AnyUrl
      /\ state \in PreviewStates /\ prefs \in [Targets -> AnyUrl]
  BY DEF TypeInv, Typed, Views
<1>1. CASE Render
  <2>1. Commit(page.target, state, prefs) /\ UNCHANGED <<registered, clearing, overtaken>>
    BY <1>1 DEF Render
  <2> QED
    BY <1>0, <2>1, Committed DEF TypeInv
<1>2. CASE \E url \in Urls : NavigateTo(url)
  <2>1. PICK url \in Urls : NavigateTo(url)
    BY <1>2
  <2> DEFINE next == Bind(Visit(Base, url), url)
  <2>2. /\ Bounded(next) /\ Commit(page.target, next, StoreUrl(url))
        /\ Handle(FALSE) /\ UNCHANGED <<registered, clearing>>
    BY <2>1 DEF NavigateTo
  <2>3. next \in PreviewStates /\ (~overtaken' => WellIndexed(next))
    BY <2>2, Navigated, Handled
  <2> HIDE DEF next
  <2> QED
    BY <1>0, <2>2, <2>3, UrlStored, Committed
<1>3. CASE RefuseUrl
  <2> DEFINE next == [Base EXCEPT !.loading = FALSE]
  <2>1. /\ Commit(page.target, next, prefs)
        /\ Handle(FALSE) /\ UNCHANGED <<registered, clearing>>
    BY <1>3 DEF RefuseUrl
  <2>2. next \in PreviewStates /\ (~overtaken' => WellIndexed(next))
    BY <2>1, Stopped, Handled
  <2> HIDE DEF next
  <2> QED
    BY <1>0, <2>1, <2>2, Committed
<1>4. CASE \E i \in 1..MaxHistory : RunHistory(i)
  <2>1. PICK i \in 1..MaxHistory : RunHistory(i)
    BY <1>4
  <2>2. PICK next :
          /\ i \in DOMAIN page.history
          /\ Handle(i \notin DOMAIN Base.history \/ Base.history[i] # page.history[i])
          /\ next = [Bind(Base, page.history[i]) EXCEPT !.index = i]
          /\ Bounded(next)
          /\ Commit(page.target, next, StoreUrl(page.history[i]))
          /\ UNCHANGED <<registered, clearing>>
    BY <2>1, RunOf
  <2>3. /\ next \in PreviewStates /\ page.history[i] \in Urls
        /\ ~overtaken' => WellIndexed(next)
    BY <2>2, HistoryRun, Handled
  <2> QED
    BY <1>0, <2>2, <2>3, UrlStored, Committed
<1>5. CASE ReloadPreview
  <2> DEFINE next == RebindFrame(Base)
  <2>1. /\ Bounded(next) /\ Commit(page.target, next, prefs)
        /\ Handle(FALSE) /\ UNCHANGED <<registered, clearing>>
    BY <1>5 DEF ReloadPreview
  <2>2. next \in PreviewStates /\ (~overtaken' => WellIndexed(next))
    BY <2>1, BaseTyped, Rebound, Handled
  <2> HIDE DEF next
  <2> QED
    BY <1>0, <2>1, <2>2, Committed
<1>6. CASE HardReload
  <2>1. /\ clearing' = page.default
        /\ UNCHANGED <<state, prefs, page, registered, registering, frame, reports, overtaken>>
    BY <1>6 DEF HardReload
  <2> QED
    BY <1>0, <2>1 DEF TypeInv, Typed, FrameReports
<1>7. CASE \E t \in Targets : SelectTarget(t)
  <2>1. PICK t \in Targets : Commit(t, state, prefs) /\ UNCHANGED <<registered, clearing, overtaken>>
    BY <1>7 DEF SelectTarget
  <2> QED
    BY <1>0, <2>1, Committed DEF TypeInv
<1>8. CASE Reopen
  <2>1. /\ state' = CreatePreviewState(prefs[page.target])
        /\ page' = View(page.target, state', prefs)
        /\ registered' = NoJob
        /\ registering' = Job(page')
        /\ clearing' = None
        /\ frame' = NoFrame
        /\ reports' = <<>>
        /\ UNCHANGED prefs
    BY <1>8 DEF Reopen
  <2>2. prefs[page.target] \in AnyUrl
    BY <1>0
  <2>3. state' \in PreviewStates /\ WellIndexed(state')
    BY <2>1, <2>2, Created
  <2>4. page' \in Views
    BY <1>0, <2>1, <2>3, Viewed
  <2>5. registering' \in Jobs /\ registered' \in Jobs /\ frame' \in Frames
    BY <2>1, <2>4, Jobbed, NoJobIsJob
  <2>6. ~frame'.loaded
    BY <2>1 DEF NoFrame
  <2> QED
    BY <1>0, <2>1, <2>3, <2>4, <2>5, <2>6, PreviewAssumption DEF TypeInv, Typed, FrameReports
<1>9. CASE StorageCleared
  <2> DEFINE s == Active(state, clearing)
             next == RebindFrame(s)
  <2>1. /\ clearing # None /\ clearing' = None
        /\ Bounded(next) /\ state' = next
        /\ Handle(FALSE)
        /\ UNCHANGED <<page, registering, frame, prefs, registered, reports>>
    BY <1>9 DEF StorageCleared
  <2>2. clearing \in AnyUrl
    BY <2>1 DEF TypeInv, Typed
  <2>3. s \in PreviewStates /\ (~overtaken => WellIndexed(s))
    BY <1>0, <2>2, Activated, ActiveIsIndexed DEF TypeInv
  <2>4. next \in PreviewStates /\ (~overtaken' => WellIndexed(next))
    BY <2>1, <2>3, Rebound, Handled
  <2> HIDE DEF next
  <2> QED
    BY <2>1, <2>4 DEF TypeInv, Typed, FrameReports
<1>10. CASE RecordFrameNavigation
  <2>1. /\ reports # <<>> /\ reports' = Tail(reports) /\ Head(reports) \in Urls
        /\ state' \in PreviewStates /\ (~overtaken' => WellIndexed(state'))
        /\ prefs' \in {prefs, StoreUrl(Head(reports))}
        /\ UNCHANGED <<page, registered, registering, clearing, frame>>
    BY <1>10, Recorded, Handled
  <2>2. reports \in Seq(Urls)
    BY DEF TypeInv, Typed
  <2>3. reports' \in Seq(Urls) /\ Len(reports') <= MaxReports
    BY <2>1, <2>2, PreviewAssumption DEF TypeInv
  <2>4. prefs' \in [Targets -> AnyUrl]
    BY <1>0, <2>1, UrlStored
  <2>5. FrameReports'
    BY <2>1 DEF TypeInv, FrameReports
  <2> QED
    BY <2>1, <2>3, <2>4, <2>5 DEF TypeInv, Typed
<1>11. CASE Register
  <2>1. /\ registering' = NoJob /\ registered' = registering
        /\ UNCHANGED <<state, prefs, page, clearing, frame, reports, overtaken>>
    BY <1>11 DEF Register
  <2> QED
    BY <2>1, NoJobIsJob DEF TypeInv, Typed, FrameReports
<1>12. CASE RegistrationFails
  <2>1. /\ registering' = NoJob /\ state' = [Base EXCEPT !.loading = FALSE]
        /\ Handle(FALSE)
        /\ UNCHANGED <<prefs, page, registered, clearing, frame, reports>>
    BY <1>12 DEF RegistrationFails
  <2>2. state' \in PreviewStates /\ (~overtaken' => WellIndexed(state'))
    BY <2>1, Stopped, Handled
  <2> QED
    BY <2>1, <2>2, NoJobIsJob DEF TypeInv, Typed, FrameReports
<1>13. CASE \E url \in Urls : FrameLoads(url)
  <2>1. PICK url \in Urls : FrameLoads(url)
    BY <1>13
  <2>2. /\ frame.key # NoJob /\ ~frame.loaded
        /\ frame' = [frame EXCEPT !.at = url, !.loaded = TRUE]
        /\ reports' = Append(reports, url)
        /\ state' = [Base EXCEPT !.loading = FALSE]
        /\ Handle(FALSE)
        /\ UNCHANGED <<prefs, page, registered, registering, clearing>>
    BY <2>1 DEF FrameLoads, Report
  <2>3. state' \in PreviewStates /\ (~overtaken' => WellIndexed(state'))
    BY <2>2, Stopped, Handled
  <2>4. reports' \in Seq(Urls) /\ Len(reports') <= MaxReports
    <3>1. reports = <<>>
      BY <2>2 DEF TypeInv, FrameReports
    <3> QED
      BY <2>2, <3>1, PreviewAssumption
  <2>5. frame' \in Frames /\ frame'.loaded /\ frame'.key = frame.key
    BY <2>2 DEF TypeInv, Typed, Frames, AnyUrl
  <2> QED
    BY <2>2, <2>3, <2>4, <2>5 DEF TypeInv, Typed, FrameReports
<1>14. CASE \E url \in Urls : FrameMoves(url)
  <2>1. PICK url \in Urls : FrameMoves(url)
    BY <1>14
  <2>2. /\ frame.loaded /\ Len(reports) < MaxReports
        /\ frame' = [frame EXCEPT !.at = url]
        /\ reports' = Append(reports, url)
        /\ UNCHANGED <<state, prefs, page, registered, registering, clearing, overtaken>>
    BY <2>1 DEF FrameMoves, Report
  <2>3. reports \in Seq(Urls) /\ reports' \in Seq(Urls) /\ Len(reports') <= MaxReports
    BY <2>2, PreviewAssumption DEF TypeInv, Typed
  <2>4. frame' \in Frames /\ frame'.key = frame.key
    BY <2>2 DEF TypeInv, Typed, Frames, AnyUrl
  <2>5. frame'.loaded
    BY <2>2 DEF TypeInv, Typed, Frames
  <2> QED
    BY <2>2, <2>3, <2>4, <2>5 DEF TypeInv, Typed, FrameReports
<1>15. CASE UNCHANGED vars
  BY <1>15 DEF vars, TypeInv, Typed, FrameReports
<1> QED
  BY <1>1, <1>2, <1>3, <1>4, <1>5, <1>6, <1>7, <1>8, <1>9, <1>10, <1>11, <1>12,
     <1>13, <1>14, <1>15, Zenon DEF Next

LEMMA TypeInvariance == Spec => []TypeInv
BY InitTypes, NextTypes, PTL DEF Spec

(* The variables of the preview have their types whenever React renders,   *)
(* and until a handler is overtaken the history index points into the      *)
(* history or the history is empty (the callers of updatePreviewState in   *)
(* canvas-web-preview.tsx).                                                *)
THEOREM TypeCorrect == Spec => []TypeOK
BY TypeInvariance, TypeInvImplies, PTL

-----------------------------------------------------------------------------
(* The history is kept                                                     *)

(* Until a handler is overtaken, a page whose default URL is not the one   *)
(* stored since is that of a state which is at the stored URL, or at the   *)
(* default URL it was made for.                                            *)
EchoFollows ==
    ~overtaken =>
        \/ page.default = prefs[page.target]
        \/ /\ state.source = page.default
           /\ CurrentUrl(state) = prefs[page.target]
        \/ state.source = CurrentUrl(state)

HistoryInv == TypeInv /\ EchoFollows

LEMMA CommitFollows ==
    ASSUME TypeInv, NEW t \in Targets, NEW s \in PreviewStates,
           NEW urls \in [Targets -> AnyUrl], Commit(t, s, urls)
    PROVE  page'.target = t /\ page'.default = prefs'[page'.target]
<1>1. page' = View(t, s, urls) /\ prefs' = urls
  BY DEF Commit
<1>2. View(t, s, urls).target = t /\ View(t, s, urls).default = urls[t]
  BY Viewed
<1> QED
  BY <1>1, <1>2

(* A state for the default URL of the page that shows what Base shows is   *)
(* as good as the one before: the three cases of EchoFollows.              *)
LEMMA LikeBaseFollows ==
    ASSUME HistoryInv, ~overtaken, UNCHANGED <<page, prefs>>,
           state'.source = page.default, CurrentUrl(state') = CurrentUrl(Base)
    PROVE  EchoFollows'
<1> DEFINE p == page.default
           d == prefs[page.target]
<1>0. state \in PreviewStates /\ p \in AnyUrl /\ Base = Active(state, p)
  BY DEF HistoryInv, TypeInv, Typed, Views, Base
<1>1. \/ p = d
      \/ state.source = p /\ CurrentUrl(state) = d
      \/ state.source = CurrentUrl(state)
  BY DEF HistoryInv, EchoFollows
<1>2. /\ state'.source = p /\ CurrentUrl(state') = CurrentUrl(Base)
      /\ page'.default = p /\ prefs'[page'.target] = d
  OBVIOUS
<1> HIDE DEF p, d
<1>3. CASE p = d
  BY <1>2, <1>3 DEF EchoFollows
<1>4. CASE state.source = p
  <2>1. Base = state
    BY <1>0, <1>4 DEF Active
  <2> QED
    BY <1>1, <1>2, <1>3, <1>4, <2>1 DEF EchoFollows
<1>5. CASE state.source # p /\ state.source = CurrentUrl(state)
  <2>1. Base = CreatePreviewState(p)
    BY <1>0, <1>5, Activated
  <2>2. CurrentUrl(Base) = p
    BY <1>0, <2>1, Created
  <2> QED
    BY <1>2, <2>2 DEF EchoFollows
<1> QED
  BY <1>1, <1>3, <1>4, <1>5

(* A storage clearing may have closed over any default URL.                *)
LEMMA ClearedFollows ==
    ASSUME HistoryInv, StorageCleared PROVE EchoFollows'
<1> DEFINE p == page.default
           d == prefs[page.target]
           b == Active(state, clearing)
<1>0. /\ state \in PreviewStates /\ clearing \in AnyUrl
      /\ Bounded(RebindFrame(b)) /\ state' = RebindFrame(b)
      /\ Handle(FALSE) /\ UNCHANGED <<page, prefs>>
  BY DEF StorageCleared, HistoryInv, TypeInv, Typed
<1>1. SUFFICES ASSUME ~overtaken' PROVE EchoFollows'
  BY DEF EchoFollows
<1>2. \/ p = d
      \/ state.source = p /\ CurrentUrl(state) = d
      \/ state.source = CurrentUrl(state)
  BY <1>0, <1>1, Handled DEF HistoryInv, EchoFollows
<1>3. b \in PreviewStates /\ b.source = clearing
  BY <1>0, Activated
<1>4. state'.source = b.source /\ CurrentUrl(state') = CurrentUrl(b)
  BY <1>0, <1>3, Rebound
<1>5. page'.default = p /\ prefs'[page'.target] = d
  BY <1>0
<1>6. CASE b.source = CurrentUrl(b)
  BY <1>4, <1>6 DEF EchoFollows
<1>7. CASE b = state
  BY <1>2, <1>4, <1>5, <1>7 DEF EchoFollows
<1>8. b = state \/ b.source = CurrentUrl(b)
  <2> HIDE DEF p, d
  <2>1. CASE state.source = clearing
    BY <2>1 DEF Active
  <2>2. CASE state.source # clearing
    <3>1. \/ clearing = CurrentUrl(state) /\ b.history = state.history /\ b.index = state.index
          \/ b = CreatePreviewState(clearing)
      BY <1>0, <2>2, Activated
    <3>2. CurrentUrl(b) = clearing
      <4>1. CurrentUrl(CreatePreviewState(clearing)) = clearing
        BY <1>0, Created
      <4> HIDE DEF b
      <4> QED
        BY <3>1, <4>1 DEF CurrentUrl
    <3> QED
      BY <1>3, <3>2
  <2> QED
    BY <2>1, <2>2
<1> QED
  BY <1>6, <1>7, <1>8

LEMMA EchoFollowing == HistoryInv /\ [Next]_vars => HistoryInv'
<1> SUFFICES ASSUME HistoryInv, [Next]_vars PROVE EchoFollows'
  BY NextTypes DEF HistoryInv
<1>0. /\ TypeInv /\ page.target \in Targets
      /\ state \in PreviewStates /\ prefs \in [Targets -> AnyUrl]
  BY DEF HistoryInv, TypeInv, Typed, Views
<1>1. CASE \E t \in Targets, s \in PreviewStates, urls \in [Targets -> AnyUrl] : Commit(t, s, urls)
  BY <1>0, <1>1, CommitFollows DEF EchoFollows
<1>2. CASE Render
  BY <1>0, <1>1, <1>2 DEF Render
<1>3. CASE \E url \in Urls : NavigateTo(url)
  <2>1. PICK url \in Urls : NavigateTo(url)
    BY <1>3
  <2> DEFINE next == Bind(Visit(Base, url), url)
  <2>2. Bounded(next) /\ Commit(page.target, next, StoreUrl(url))
    BY <2>1 DEF NavigateTo
  <2>3. next \in PreviewStates
    BY <1>0, <2>2, Navigated
  <2> HIDE DEF next
  <2> QED
    BY <1>0, <1>1, <2>2, <2>3, UrlStored
<1>4. CASE RefuseUrl
  <2>1. PICK next : next = [Base EXCEPT !.loading = FALSE] /\ Commit(page.target, next, prefs)
    BY <1>4 DEF RefuseUrl
  <2> QED
    BY <1>0, <1>1, <2>1, Stopped
<1>5. CASE \E i \in 1..MaxHistory : RunHistory(i)
  <2>1. PICK i \in 1..MaxHistory : RunHistory(i)
    BY <1>5
  <2>2. PICK next :
          /\ i \in DOMAIN page.history
          /\ next = [Bind(Base, page.history[i]) EXCEPT !.index = i]
          /\ Bounded(next)
          /\ Commit(page.target, next, StoreUrl(page.history[i]))
    BY <1>0, <2>1, RunOf
  <2>3. next \in PreviewStates /\ page.history[i] \in Urls
    BY <1>0, <2>2, HistoryRun
  <2> QED
    BY <1>0, <1>1, <2>2, <2>3, UrlStored
<1>6. CASE ReloadPreview
  <2> DEFINE next == RebindFrame(Base)
  <2>1. Bounded(next) /\ Commit(page.target, next, prefs)
    BY <1>6 DEF ReloadPreview
  <2>2. next \in PreviewStates
    BY <1>0, <2>1, BaseTyped, Rebound
  <2> HIDE DEF next
  <2> QED
    BY <1>0, <1>1, <2>1, <2>2
<1>7. CASE \E t \in Targets : SelectTarget(t)
  BY <1>0, <1>1, <1>7 DEF SelectTarget
<1>8. CASE Reopen
  <2>1. /\ state' = CreatePreviewState(prefs[page.target])
        /\ page' = View(page.target, state', prefs)
        /\ UNCHANGED prefs
    BY <1>8 DEF Reopen
  <2>2. state' \in PreviewStates
    BY <1>0, <2>1, Created
  <2> QED
    BY <1>0, <2>1, <2>2, Viewed DEF EchoFollows
<1>9. CASE StorageCleared
  BY <1>9, ClearedFollows
<1>10. CASE RecordFrameNavigation
  <2> DEFINE url == Head(reports)
  <2>1. SUFFICES ASSUME ~overtaken' PROVE EchoFollows'
    BY DEF EchoFollows
  <2>2. /\ Handle(url = CurrentUrl(page) /\ url # CurrentUrl(Base))
        /\ url \in Urls
        /\ state'.source = page.default /\ UNCHANGED page
        /\ ~overtaken => CurrentUrl(state') = url
        /\ prefs' = IF url # CurrentUrl(page) THEN StoreUrl(url) ELSE prefs
    BY <1>0, <1>10, Recorded
  <2>3. /\ ~overtaken /\ CurrentUrl(state') = url
        /\ ~(url = CurrentUrl(page) /\ url # CurrentUrl(Base))
    BY <1>0, <2>1, <2>2, Handled
  <2> HIDE DEF url
  <2>4. CASE url # CurrentUrl(page)
    <3>1. prefs'[page.target] = url
      BY <1>0, <2>2, <2>4, UrlStored
    <3> QED
      BY <2>2, <2>3, <3>1 DEF EchoFollows
  <2>5. CASE url = CurrentUrl(page)
    BY <2>2, <2>3, <2>5, LikeBaseFollows
  <2> QED
    BY <2>4, <2>5
<1>11. CASE RegistrationFails \/ \E url \in Urls : FrameLoads(url)
  <2>1. /\ state' = [Base EXCEPT !.loading = FALSE] /\ UNCHANGED <<page, prefs>>
        /\ Handle(FALSE)
    BY <1>11 DEF RegistrationFails, FrameLoads
  <2>2. state'.source = page.default /\ CurrentUrl(state') = CurrentUrl(Base)
    BY <1>0, <2>1, Stopped
  <2>3. ~overtaken' => ~overtaken
    BY <1>0, <2>1, Handled
  <2> QED
    BY <2>1, <2>2, <2>3, LikeBaseFollows DEF EchoFollows
<1>12. CASE \/ HardReload \/ Register \/ \E url \in Urls : FrameMoves(url)
            \/ UNCHANGED vars
  <2>1. UNCHANGED <<state, prefs, page, overtaken>>
    BY <1>12, Zenon DEF HardReload, Register, FrameMoves, vars
  <2> QED
    BY <2>1 DEF HistoryInv, EchoFollows
<1> QED
  BY <1>2, <1>3, <1>4, <1>5, <1>6, <1>7, <1>8, <1>9, <1>10, <1>11, <1>12, Zenon DEF Next

LEMMA InitFollows == Init => HistoryInv
<1> SUFFICES ASSUME Init PROVE EchoFollows
  BY InitTypes DEF HistoryInv
<1>1. TypeInv
  BY InitTypes
<1>2. PICK t \in Targets, urls \in Stored : prefs = urls /\ page = View(t, state, urls)
  BY DEF Init
<1> QED
  BY <1>1, <1>2, Viewed DEF EchoFollows, TypeInv, Typed

(* The echo of a URL is adopted by the preview that is at it.              *)
LEMMA EchoKeepsHistory ==
    ASSUME NEW s \in PreviewStates, NEW d \in AnyUrl,
           s.source = d \/ (d # NoUrl /\ CurrentUrl(s) = d)
    PROVE  Active(s, d).history = s.history
BY Activated

(* A handler that keeps what Base shows, and stores nothing, keeps what is *)
(* shown: also when the page has not yet rendered the URL stored last.     *)
LEMMA LikeBaseKeeps ==
    ASSUME HistoryInv, NEW misled, Handle(misled), ~overtaken',
           NEW s \in PreviewStates, s.source = page.default,
           s.history = Base.history, s.index = Base.index
    PROVE  SameOrigin(Shown.history, Active(s, prefs[page.target]).history)
<1> DEFINE p == page.default
           d == prefs[page.target]
           after == Active(s, d)
<1>0. /\ state \in PreviewStates /\ p \in AnyUrl /\ d \in AnyUrl
      /\ Shown = Active(state, d) /\ TypeInv
  BY DEF HistoryInv, TypeInv, Typed, Views, Shown
<1>1. /\ ~overtaken
      /\ Base.history = Shown.history /\ CurrentUrl(Base) = CurrentUrl(Shown)
  BY <1>0, Handled
<1>2. CurrentUrl(s) = CurrentUrl(Base)
  BY DEF CurrentUrl
<1>3. \/ p = d
      \/ state.source = p /\ CurrentUrl(state) = d
      \/ state.source = CurrentUrl(state)
  BY <1>1 DEF HistoryInv, EchoFollows
<1>4. s.source = p /\ s.history = Shown.history
  BY <1>1
<1> HIDE DEF p, d
<1>5. CASE p = d
  <2>1. after.history = Shown.history
    BY <1>0, <1>4, <1>5, EchoKeepsHistory
  <2> QED
    BY <2>1 DEF SameOrigin, d
<1>6. ASSUME p # d PROVE CurrentUrl(Shown) = d
  <2>1. CASE state.source = d
    <3>1. Shown = state /\ CurrentUrl(state) = d
      BY <1>0, <1>3, <1>6, <2>1 DEF Active
    <3> QED
      BY <3>1
  <2>2. CASE state.source # d
    <3>1. \/ d = CurrentUrl(state) /\ Shown.history = state.history /\ Shown.index = state.index
          \/ Shown = CreatePreviewState(d)
      BY <1>0, <2>2, Activated
    <3>2. CurrentUrl(CreatePreviewState(d)) = d
      BY <1>0, Created
    <3> QED
      BY <3>1, <3>2 DEF CurrentUrl
  <2> QED
    BY <2>1, <2>2
<1>7. CASE p # d /\ d # NoUrl
  <2>1. CurrentUrl(s) = d
    BY <1>1, <1>2, <1>6, <1>7
  <2>2. after.history = Shown.history
    BY <1>0, <1>4, <1>7, <2>1, EchoKeepsHistory
  <2> QED
    BY <2>2 DEF SameOrigin, d
<1>8. CASE p # d /\ d = NoUrl
  <2>1. CurrentUrl(Base) = NoUrl
    BY <1>1, <1>6, <1>8
  <2>2. Base \in PreviewStates /\ WellIndexed(Base)
    BY <1>0, <1>1, BaseTyped
  <2>3. Base.history = <<>>
    <3> SUFFICES ASSUME Base.history # <<>> PROVE FALSE
      OBVIOUS
    <3>1. /\ Base.history \in Seq(Urls) /\ Base.index \in DOMAIN Base.history
      BY <2>2 DEF PreviewStates, WellIndexed
    <3>2. CurrentUrl(Base) = Base.history[Base.index] /\ Base.history[Base.index] \in Urls
      BY <3>1 DEF CurrentUrl
    <3> QED
      BY <2>1, <3>2, PreviewAssumption
  <2> QED
    BY <1>1, <2>3 DEF SameOrigin
<1> QED
  BY <1>5, <1>7, <1>8 DEF d

LEMMA StepKeepsHistory ==
    ASSUME HistoryInv, [Next]_vars
    PROVE  \/ page'.target # page.target
           \/ Reopen
           \/ StorageCleared /\ clearing # page.default
           \/ overtaken'
           \/ SameOrigin(Shown.history, Shown'.history)
<1> SUFFICES ASSUME page'.target = page.target, ~Reopen,
                    StorageCleared => clearing = page.default, ~overtaken'
             PROVE  SameOrigin(Shown.history, Shown'.history)
  OBVIOUS
<1> DEFINE t == page.target
<1>0. /\ t \in Targets /\ state \in PreviewStates /\ prefs \in [Targets -> AnyUrl]
      /\ Base \in PreviewStates /\ Base.source = page.default /\ TypeInv
      /\ Shown' = Active(state', prefs'[t])
  BY BaseTyped DEF HistoryInv, TypeInv, Typed, Views, Shown
<1>1. ASSUME NEW s \in PreviewStates, NEW url \in Urls, NEW misled, Handle(misled),
             state' = s, prefs' = StoreUrl(url), CurrentUrl(s) = url,
             SameOrigin(Base.history, s.history)
      PROVE  SameOrigin(Shown.history, Shown'.history)
  <2>1. Shown.history = Base.history
    BY <1>0, <1>1, Handled
  <2>2. prefs'[t] = url /\ url \in AnyUrl /\ url # NoUrl
    BY <1>0, <1>1, UrlStored, PreviewAssumption DEF AnyUrl
  <2>3. Shown'.history = s.history
    BY <1>0, <1>1, <2>2, EchoKeepsHistory
  <2> QED
    BY <1>1, <2>1, <2>3
<1>2. ASSUME NEW s \in PreviewStates, NEW misled, Handle(misled),
             state' = s, prefs' = prefs, s.source = page.default,
             s.history = Base.history, s.index = Base.index
      PROVE  SameOrigin(Shown.history, Shown'.history)
  <2>1. Shown' = Active(s, prefs[page.target])
    BY <1>0, <1>2
  <2> QED
    BY <1>2, <2>1, LikeBaseKeeps
<1>3. CASE Render \/ HardReload \/ Register \/ (\E url \in Urls : FrameMoves(url)) \/ UNCHANGED vars
  <2>1. UNCHANGED <<state, prefs>>
    BY <1>3, Zenon DEF Render, Commit, HardReload, Register, FrameMoves, vars
  <2> QED
    BY <1>0, <2>1 DEF Shown, SameOrigin
<1>4. CASE \E url \in Urls : NavigateTo(url)
  <2>1. PICK url \in Urls : NavigateTo(url)
    BY <1>4
  <2> DEFINE next == Bind(Visit(Base, url), url)
  <2>2. /\ Bounded(next) /\ Handle(FALSE)
        /\ state' = next /\ prefs' = StoreUrl(url)
    BY <2>1 DEF NavigateTo, Commit
  <2>3. ~overtaken
    BY <1>0, <2>2, Handled
  <2>4. /\ next \in PreviewStates /\ CurrentUrl(next) = url
        /\ SameOrigin(Base.history, next.history)
    BY <1>0, <2>2, <2>3, Navigated
  <2> HIDE DEF next
  <2> QED
    BY <1>1, <2>2, <2>4
<1>5. CASE RefuseUrl
  <2>1. /\ state' = [Base EXCEPT !.loading = FALSE] /\ prefs' = prefs /\ Handle(FALSE)
    BY <1>5 DEF RefuseUrl, Commit
  <2>2. /\ state' \in PreviewStates /\ state'.source = page.default
        /\ state'.history = Base.history /\ state'.index = Base.index
    BY <1>0, <2>1, Stopped
  <2> QED
    BY <1>2, <2>1, <2>2
<1>6. CASE \E i \in 1..MaxHistory : RunHistory(i)
  <2>1. PICK i \in 1..MaxHistory : RunHistory(i)
    BY <1>6
  <2> DEFINE misled == i \notin DOMAIN Base.history \/ Base.history[i] # page.history[i]
  <2>2. PICK next :
          /\ i \in DOMAIN page.history
          /\ Handle(misled)
          /\ next = [Bind(Base, page.history[i]) EXCEPT !.index = i]
          /\ Bounded(next)
          /\ Commit(page.target, next, StoreUrl(page.history[i]))
    BY <1>0, <2>1, RunOf
  <2>3. ~misled
    BY <1>0, <2>2, Handled
  <2>4. /\ next \in PreviewStates /\ page.history[i] \in Urls
        /\ next.history = Base.history /\ CurrentUrl(next) = page.history[i]
    BY <1>0, <2>2, <2>3, HistoryRun
  <2>5. state' = next /\ prefs' = StoreUrl(page.history[i])
    BY <2>2 DEF Commit
  <2>6. SameOrigin(Base.history, next.history)
    BY <2>4 DEF SameOrigin
  <2> HIDE DEF misled
  <2> QED
    BY <1>1, <2>2, <2>4, <2>5, <2>6
<1>7. CASE ReloadPreview
  <2>1. /\ Bounded(RebindFrame(Base)) /\ Handle(FALSE)
        /\ state' = RebindFrame(Base) /\ prefs' = prefs
    BY <1>7 DEF ReloadPreview, Commit
  <2>2. /\ state' \in PreviewStates /\ state'.source = page.default
        /\ state'.history = Base.history /\ state'.index = Base.index
    BY <1>0, <2>1, Rebound
  <2> QED
    BY <1>2, <2>1, <2>2
<1>8. CASE \E u \in Targets : SelectTarget(u)
  <2>1. PICK u \in Targets : u # page.target /\ Commit(u, state, prefs)
    BY <1>8 DEF SelectTarget
  <2> QED
    BY <1>0, <2>1, CommitFollows
<1>9. CASE RecordFrameNavigation
  <2> DEFINE url == Head(reports)
             misled == url = CurrentUrl(page) /\ url # CurrentUrl(Base)
  <2>1. /\ Handle(misled) /\ url \in Urls
        /\ state' \in PreviewStates /\ state'.source = page.default
        /\ url = CurrentUrl(Base) =>
              state'.history = Base.history /\ state'.index = Base.index
        /\ ~overtaken => /\ CurrentUrl(state') = url
                         /\ SameOrigin(Base.history, state'.history)
        /\ prefs' = IF url # CurrentUrl(page) THEN StoreUrl(url) ELSE prefs
    BY <1>0, <1>9, Recorded
  <2>2. ~overtaken /\ ~misled
    BY <1>0, <2>1, Handled
  <2>3. CASE url # CurrentUrl(page)
    <3>1. prefs' = StoreUrl(url)
      BY <2>1, <2>3
    <3> HIDE DEF url, misled
    <3> QED
      BY <1>1, <2>1, <2>2, <3>1
  <2>4. CASE url = CurrentUrl(page)
    <3>1. prefs' = prefs /\ url = CurrentUrl(Base)
      BY <2>1, <2>2, <2>4
    <3> HIDE DEF url, misled
    <3> QED
      BY <1>2, <2>1, <3>1
  <2> QED
    BY <2>3, <2>4
<1>10. CASE RegistrationFails \/ \E url \in Urls : FrameLoads(url)
  <2>1. state' = [Base EXCEPT !.loading = FALSE] /\ prefs' = prefs /\ Handle(FALSE)
    BY <1>10 DEF RegistrationFails, FrameLoads
  <2>2. /\ state' \in PreviewStates /\ state'.source = page.default
        /\ state'.history = Base.history /\ state'.index = Base.index
    BY <1>0, <2>1, Stopped
  <2> QED
    BY <1>2, <2>1, <2>2
<1>11. CASE StorageCleared
  <2>1. clearing = page.default
    BY <1>11
  <2>2. /\ Bounded(RebindFrame(Base)) /\ Handle(FALSE)
        /\ state' = RebindFrame(Base) /\ prefs' = prefs
    BY <1>11, <2>1 DEF StorageCleared, Base
  <2>3. /\ state' \in PreviewStates /\ state'.source = page.default
        /\ state'.history = Base.history /\ state'.index = Base.index
    BY <1>0, <2>2, Rebound
  <2> QED
    BY <1>2, <2>2, <2>3
<1> QED
  BY <1>3, <1>4, <1>5, <1>6, <1>7, <1>8, <1>9, <1>10, <1>11, Zenon DEF Next

(* While the canvas stays on a target, navigations, reports of the frame   *)
(* and the echoes of what was stored keep the history, rendered one by one *)
(* or together and whatever pages the targets share (getActivePreviewState *)
(* and its callers), until a handler is overtaken.                         *)
THEOREM HistoryStaysKept == Spec => HistoryIsKept
<1>1. Spec => []HistoryInv
  BY InitFollows, EchoFollowing, PTL DEF Spec
<1>2. HistoryInv /\ [Next]_vars =>
        [\/ page'.target # page.target
         \/ Reopen
         \/ StorageCleared /\ clearing # page.default
         \/ overtaken'
         \/ SameOrigin(Shown.history, Shown'.history)]_vars
  BY StepKeepsHistory
<1> QED
  BY <1>1, <1>2, PTL DEF Spec, HistoryIsKept
=============================================================================
