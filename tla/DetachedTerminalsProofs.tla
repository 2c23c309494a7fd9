---------------------- MODULE DetachedTerminalsProofs ----------------------
(***************************************************************************)
(* Theorems about DetachedTerminals, for any number of sessions and clicks *)
(* and any naming of windows.  The two invariants are inductive together:  *)
(* a session is forgotten with the interval of its own record and no other *)
(* one, because an attempt is recorded for the session it was made for.    *)
(***************************************************************************)
EXTENDS DetachedTerminals, TLAPS

Inv == TypeOK /\ PlaceholderIsWatched

\* What the page keeps about its windows is consistent for r, k and i, in
\* place of the records, the keys and the intervals.
Watched(r, k, i, o, w) ==
    /\ k = {s \in Sessions : r[s] # 0}
    /\ \A s \in k : r[s] \in i /\ o[r[s]] = s /\ w[r[s]] # 0

LEMMA Initially == Init => Inv
<1> SUFFICES ASSUME Init PROVE Inv
  OBVIOUS
<1>1. of \in [Attempts -> Sessions]
  BY DetachedAssumption DEF Init
<1>2. TypeOK
  <2>1. 0 \in 0..MaxOpens /\ 0 \in 0..0
    BY DetachedAssumption
  <2>2. /\ asked \in 0..MaxOpens /\ records \in [Sessions -> 0..asked]
        /\ watch \in [Attempts -> 0..MaxOpens]
        /\ kind \in [Attempts -> {"none", "pip", "popup"}]
    BY <2>1 DEF Init
  <2> QED
    BY <1>1, <2>2 DEF Init, TypeOK, OpenPips
<1>3. PlaceholderIsWatched
  BY DEF Init, PlaceholderIsWatched
<1> QED
  BY <1>2, <1>3 DEF Inv

\* Forgetting sessions leaves the intervals of the other records running.
LEMMA ForgetKeepsWatch ==
    ASSUME Inv, NEW S \in SUBSET Sessions, Forget(S)
    PROVE  /\ polls' \subseteq 1..asked
           /\ records' \in [Sessions -> 0..asked]
           /\ keys' \subseteq Sessions
           /\ Watched(records', keys', polls', of, watch)
<1>1. /\ polls \subseteq 1..asked /\ asked \in Nat
      /\ records \in [Sessions -> 0..asked]
      /\ \A s \in Sessions : s \in keys <=> records[s] # 0
      /\ keys \subseteq Sessions
      /\ \A s \in keys : records[s] \in polls /\ of[records[s]] = s /\ watch[records[s]] # 0
  BY DetachedAssumption DEF Inv, TypeOK, PlaceholderIsWatched
<1>2. \A s \in Sessions : records'[s] = IF s \in S THEN 0 ELSE records[s]
  BY DEF Forget
<1>3. ASSUME NEW s \in keys' PROVE records'[s] \in polls' /\ of[records'[s]] = s /\ watch[records'[s]] # 0
  <2>1. s \in keys /\ s \notin S /\ s \in Sessions
    BY <1>1, <1>3 DEF Forget
  <2>2. ASSUME NEW t \in S PROVE records[t] # records[s]
    <3>1. CASE t \in keys
      BY <1>1, <2>1, <2>2, <3>1
    <3>2. CASE t \in Sessions \ keys
      BY <1>1, <2>1, <3>2
    <3> QED
      BY <2>2, <3>1, <3>2
  <2> QED
    BY <1>1, <1>2, <2>1, <2>2 DEF Forget
<1>4. polls' \subseteq 1..asked /\ keys' \subseteq Sessions
  BY <1>1 DEF Forget
<1>5. records' \in [Sessions -> 0..asked]
  BY <1>1 DEF Forget
<1>6. keys' = {s \in Sessions : records'[s] # 0}
  BY <1>1, <1>2 DEF Forget
<1> QED
  BY <1>3, <1>4, <1>5, <1>6 DEF Watched

\* The page's part of TypeOK, and the browser's, apart.
PageOK ==
    /\ asked \in 0..MaxOpens
    /\ of \in [Attempts -> Sessions]
    /\ watch \in [Attempts -> 0..MaxOpens]
    /\ asking \subseteq 1..asked
    /\ polls \subseteq 1..asked
    /\ listening \subseteq 1..asked
    /\ records \in [Sessions -> 0..asked]
    /\ keys \subseteq Sessions

OnePip == \A v, w \in OpenPips : v = w
OnePerName ==
    \A v, w \in open :
        kind[v] = "popup" /\ kind[w] = "popup" /\ NameOf[of[v]] = NameOf[of[w]] => v = w

WindowsOK ==
    /\ kind \in [Attempts -> {"none", "pip", "popup"}]
    /\ open \subseteq {w \in 1..asked : kind[w] # "none"}
    /\ leaving \subseteq 1..asked
    /\ OnePip
    /\ OnePerName

LEMMA InvParts == Inv <=> PageOK /\ WindowsOK /\ Watched(records, keys, polls, of, watch)
BY DEF Inv, TypeOK, PlaceholderIsWatched, PageOK, WindowsOK, OnePip, OnePerName, Watched

\* Forgetting, with all else the page knows unchanged.
LEMMA ForgetKeeps ==
    ASSUME Inv, NEW S \in SUBSET Sessions, Forget(S), UNCHANGED <<asked, of, watch, asking>>,
           listening' \subseteq listening
    PROVE  PageOK' /\ Watched(records, keys, polls, of, watch)'
BY ForgetKeepsWatch, InvParts DEF PageOK, Watched

\* A window is registered for an attempt; `last' is the number of attempts
\* made, one more than before when the click opens the window itself.
LEMMA RegisterKeepsWatch ==
    ASSUME Inv, NEW last \in {asked, asked + 1}, last <= MaxOpens, asked' = last,
           NEW p \in 1..last, NEW s \in Sessions, NEW w \in 1..last,
           of' \in [Attempts -> Sessions], of'[p] = s,
           \A q \in 1..asked : of'[q] = of[q],
           NEW running, running \in {polls, polls \ {records[s]}},
           asking' \subseteq 1..last,
           Register(p, s, w, running)
    PROVE  PageOK' /\ Watched(records, keys, polls, of, watch)'
<1>1. /\ PageOK
      /\ \A t \in Sessions : t \in keys <=> records[t] # 0
      /\ \A t \in keys : records[t] \in polls /\ of[records[t]] = t /\ watch[records[t]] # 0
  BY InvParts DEF Watched
<1>2. asked \in Nat /\ MaxOpens \in Nat /\ 1..asked \subseteq 1..last /\ 1..last \subseteq Attempts
  BY <1>1, DetachedAssumption DEF PageOK, Attempts
<1>3. PageOK'
  <2>1. watch' \in [Attempts -> 0..MaxOpens]
    BY <1>1, <1>2 DEF Register, PageOK
  <2>2. records' \in [Sessions -> 0..last]
    BY <1>1, <1>2 DEF Register, PageOK
  <2> QED
    BY <1>1, <1>2, <2>1, <2>2 DEF Register, PageOK
<1>4. \A t \in Sessions : records'[t] = IF t = s THEN p ELSE records[t]
  BY <1>1 DEF Register, PageOK
<1>5. keys' = {t \in Sessions : records'[t] # 0}
  BY <1>1, <1>2, <1>4 DEF Register, PageOK
<1>6. ASSUME NEW t \in keys'
      PROVE records'[t] \in polls' /\ of'[records'[t]] = t /\ watch'[records'[t]] # 0
  <2>1. CASE t = s
    BY <1>1, <1>2, <1>4, <2>1 DEF Register, PageOK
  <2>2. CASE t # s
    <3>1. t \in keys /\ t \in Sessions /\ records'[t] = records[t]
      BY <1>1, <1>4, <1>6, <2>2 DEF Register, PageOK
    <3>2. records[t] \in polls /\ records[t] \in 1..asked /\ of'[records[t]] = t
      BY <1>1, <3>1 DEF PageOK
    <3>3. records[t] # records[s]
      BY <1>1, <1>2, <2>2, <3>1, <3>2
    <3>4. watch'[records[t]] # 0
      BY <1>1, <1>2, <3>1, <3>2 DEF Register, PageOK
    <3> QED
      BY <3>1, <3>2, <3>3, <3>4 DEF Register
  <2> QED
    BY <2>1, <2>2
<1> QED
  BY <1>3, <1>5, <1>6 DEF Watched

-----------------------------------------------------------------------------
\* Windows that close, or whose documents leave, disturb nothing.
LEMMA FewerWindows ==
    ASSUME WindowsOK, asked \in Nat, asked' \in {asked, asked + 1},
           \A q \in 1..asked : of'[q] = of[q],
           kind' = kind, open' \subseteq open, leaving' \subseteq leaving \union open
    PROVE  WindowsOK'
<1>1. \A w \in open' : w \in open /\ w \in 1..asked /\ of'[w] = of[w]
  BY DEF WindowsOK
<1>2. OnePip' /\ OnePerName'
  BY <1>1 DEF WindowsOK, OnePip, OnePerName, OpenPips
<1>3. 1..asked \subseteq 1..asked'
  OBVIOUS
<1> QED
  BY <1>1, <1>2, <1>3 DEF WindowsOK

LEMMA PopupKeeps ==
    ASSUME Inv, NEW last \in {asked, asked + 1}, last <= MaxOpens, asked' = last,
           NEW p \in 1..last, NEW s \in Sessions,
           of' \in [Attempts -> Sessions], of'[p] = s,
           \A q \in 1..asked : of'[q] = of[q],
           NEW running, running \in {polls, polls \ {records[s]}},
           asking' \subseteq 1..last,
           Popup(p, s, running)
    PROVE  Inv'
<1>1. PageOK /\ WindowsOK
  BY InvParts
<1>2. asked \in Nat /\ MaxOpens \in Nat /\ 1..asked \subseteq 1..last /\ 1..last \subseteq Attempts
  BY <1>1, DetachedAssumption DEF PageOK, Attempts
<1>3. CASE /\ WindowsNamed(s) = {}
           /\ kind' = [kind EXCEPT ![p] = "popup"]
           /\ open' = open \union {p}
           /\ UNCHANGED leaving
           /\ Register(p, s, p, running)
  <2>1. PageOK' /\ Watched(records, keys, polls, of, watch)'
    BY <1>3, RegisterKeepsWatch
  <2>2. \A q \in Attempts : kind'[q] = IF q = p THEN "popup" ELSE kind[q]
    BY <1>1, <1>3 DEF WindowsOK
  <2>3. /\ kind' \in [Attempts -> {"none", "pip", "popup"}]
        /\ open' \subseteq {w \in 1..last : kind'[w] # "none"}
        /\ leaving' \subseteq 1..last
    BY <1>1, <1>2, <1>3, <2>2 DEF WindowsOK
  <2>4. OnePip'
    BY <1>1, <1>2, <1>3, <2>2 DEF WindowsOK, OnePip, OpenPips
  <2>5. OnePerName'
    <3> SUFFICES ASSUME NEW v \in open', NEW w \in open', kind'[v] = "popup", kind'[w] = "popup",
                        NameOf[of'[v]] = NameOf[of'[w]]
                 PROVE  v = w
      BY DEF OnePerName
    <3>1. \A u \in open' : u # p => u \in open /\ u \in Attempts /\ kind[u] = kind'[u] /\ of'[u] = of[u]
      BY <1>1, <1>2, <1>3, <2>2 DEF WindowsOK
    <3>2. \A u \in open' : u # p /\ kind'[u] = "popup" => NameOf[of'[u]] # NameOf[s]
      BY <1>3, <3>1 DEF WindowsNamed
    <3>3. of'[p] = s
      OBVIOUS
    <3>4. CASE v = p \/ w = p
      BY <3>2, <3>3, <3>4
    <3>5. CASE v # p /\ w # p
      <4>1. /\ v \in open /\ kind[v] = "popup" /\ of'[v] = of[v]
            /\ w \in open /\ kind[w] = "popup" /\ of'[w] = of[w]
        BY <3>1, <3>5
      <4>2. NameOf[of[v]] = NameOf[of[w]]
        BY <4>1
      <4> QED
        BY <1>1, <4>1, <4>2 DEF WindowsOK, OnePerName
    <3> QED
      BY <3>4, <3>5
  <2>6. WindowsOK'
    BY <1>3, <2>3, <2>4, <2>5 DEF WindowsOK
  <2> QED
    BY <2>1, <2>6, InvParts, PTL
<1>4. ASSUME NEW w \in WindowsNamed(s), leaving' = leaving \union {w}, UNCHANGED <<kind, open>>,
             Register(p, s, w, running)
      PROVE  Inv'
  <2>1. w \in open /\ w \in 1..asked
    BY <1>1 DEF WindowsNamed, WindowsOK
  <2>2. PageOK' /\ Watched(records, keys, polls, of, watch)'
    BY <1>2, <1>4, <2>1, RegisterKeepsWatch
  <2>3. WindowsOK'
    BY <1>1, <1>2, <1>4, <2>1, FewerWindows
  <2> QED
    BY <2>2, <2>3, InvParts, PTL
<1> QED
  BY <1>3, <1>4 DEF Popup


LEMMA OpenDetachedKeeps ==
    ASSUME Inv, NEW s \in Sessions, OpenDetached(s)
    PROVE  Inv'
<1>1. PageOK /\ WindowsOK
  BY InvParts
<1>2. /\ asked \in Nat /\ MaxOpens \in Nat /\ asked + 1 \in Attempts /\ asked' = asked + 1
      /\ 1..asked \subseteq 1..asked'
  BY <1>1, DetachedAssumption DEF PageOK, Attempts, OpenDetached
<1>3. /\ of' \in [Attempts -> Sessions] /\ of'[asked + 1] = s
      /\ \A q \in 1..asked : of'[q] = of[q]
  BY <1>1, <1>2 DEF OpenDetached, PageOK, Attempts
<1>4. asking' \subseteq 1..asked'
  <2>1. asking' = asking \/ asking' = asking \union {asked + 1}
    BY DEF OpenDetached
  <2>2. asking \subseteq 1..asked'
    BY <1>1, <1>2 DEF PageOK
  <2>3. asked + 1 \in 1..asked'
    BY <1>2
  <2> QED
    BY <2>1, <2>2, <2>3
<1>5. CASE Popup(asked + 1, s, polls \ {records[s]})
  BY <1>2, <1>3, <1>4, <1>5, PopupKeeps DEF Attempts
<1>6. CASE Forget({s}) /\ UNCHANGED <<watch, listening, windowVars>>
  <2>1. /\ polls' \subseteq 1..asked
        /\ records' \in [Sessions -> 0..asked]
        /\ keys' \subseteq Sessions
        /\ Watched(records', keys', polls', of, watch)
    BY <1>6, ForgetKeepsWatch
  <2>2. PageOK'
    <3>1. /\ watch' \in [Attempts -> 0..MaxOpens]
          /\ listening' \subseteq 1..asked'
          /\ asked' \in 0..MaxOpens
      BY <1>1, <1>2, <1>6 DEF PageOK, Attempts
    <3>2. polls' \subseteq 1..asked' /\ records' \in [Sessions -> 0..asked']
      BY <1>2, <2>1
    <3> QED
      BY <1>3, <1>4, <2>1, <3>1, <3>2 DEF PageOK
  <2>3. \A t \in keys' : records'[t] \in 1..asked
    BY <2>1 DEF Watched
  <2>4. Watched(records, keys, polls, of, watch)'
    BY <1>3, <1>6, <2>1, <2>3 DEF Watched
  <2>5. WindowsOK'
    BY <1>1, <1>2, <1>3, <1>6, FewerWindows DEF windowVars
  <2> QED
    BY <2>2, <2>4, <2>5, InvParts, PTL
<1> QED
  BY <1>5, <1>6 DEF OpenDetached, Blocked

LEMMA PipGrantedKeeps ==
    ASSUME Inv, NEW p \in Attempts, PipGranted(p)
    PROVE  Inv'
<1>1. PageOK /\ WindowsOK
  BY InvParts
<1>2. asked \in Nat /\ asked <= MaxOpens /\ p \in 1..asked /\ of[p] \in Sessions
  BY <1>1, DetachedAssumption DEF PageOK, PipGranted
<1>3. PageOK' /\ Watched(records, keys, polls, of, watch)'
  <2>1. /\ asked' = asked /\ of' \in [Attempts -> Sessions] /\ of' = of
        /\ asking' \subseteq 1..asked /\ Register(p, of[p], p, polls)
    BY <1>1 DEF PageOK, PipGranted
  <2> QED
    BY <1>2, <2>1, RegisterKeepsWatch
<1>4. \A q \in Attempts : kind'[q] = IF q = p THEN "pip" ELSE kind[q]
  BY <1>1 DEF WindowsOK, PipGranted
<1>5. \A w \in open' : w = p \/ (w \in open /\ w \in Attempts /\ kind[w] # "pip" /\ kind'[w] = kind[w])
  <2>1. open \subseteq Attempts
    BY <1>1, <1>2, DetachedAssumption DEF WindowsOK, Attempts
  <2>2. \A w \in open' : w = p \/ (w \in open /\ kind[w] # "pip")
    <3>1. open' = (open \ OpenPips) \union {p}
      BY DEF PipGranted
    <3> QED
      BY <3>1 DEF OpenPips
  <2> QED
    BY <1>4, <2>1, <2>2
<1>6. OnePip'
  BY <1>5 DEF OnePip, OpenPips
<1>7. OnePerName'
  BY <1>1, <1>4, <1>5 DEF OnePerName, WindowsOK, PipGranted
<1>8. /\ kind' \in [Attempts -> {"none", "pip", "popup"}]
      /\ open' \subseteq {w \in 1..asked : kind'[w] # "none"}
      /\ leaving' \subseteq 1..asked
  <2>1. kind' \in [Attempts -> {"none", "pip", "popup"}]
    BY <1>1 DEF WindowsOK, PipGranted
  <2>2. \A w \in open' : w \in 1..asked /\ kind'[w] # "none"
    BY <1>1, <1>2, <1>4, <1>5 DEF WindowsOK
  <2>3. leaving' \subseteq 1..asked
    BY <1>1 DEF WindowsOK, PipGranted, OpenPips
  <2> QED
    BY <2>1, <2>2, <2>3
<1>9. WindowsOK'
  BY <1>6, <1>7, <1>8 DEF WindowsOK, PipGranted
<1> QED
  BY <1>3, <1>9, InvParts, PTL

LEMMA PipRefusedKeeps ==
    ASSUME Inv, NEW p \in Attempts, PipRefused(p)
    PROVE  Inv'
<1>1. PageOK /\ WindowsOK /\ Watched(records, keys, polls, of, watch)
  BY InvParts
<1>2. asked \in Nat /\ asked <= MaxOpens /\ p \in 1..asked /\ of[p] \in Sessions
  BY <1>1, DetachedAssumption DEF PageOK, PipRefused
<1>3. asked' = asked /\ of' = of /\ of' \in [Attempts -> Sessions] /\ asking' \subseteq 1..asked
  BY <1>1 DEF PageOK, PipRefused
<1>4. CASE Popup(p, of[p], polls)
  BY <1>2, <1>3, <1>4, PopupKeeps
<1>5. CASE Blocked /\ UNCHANGED <<polls, records, keys>>
  <2>1. PageOK' /\ Watched(records, keys, polls, of, watch)'
    BY <1>1, <1>3, <1>5 DEF PageOK, Watched, Blocked
  <2>2. WindowsOK'
    BY <1>1, <1>2, <1>3, <1>5, FewerWindows DEF Blocked, windowVars
  <2> QED
    BY <2>1, <2>2, InvParts, PTL
<1> QED
  BY <1>4, <1>5 DEF PipRefused

LEMMA PageLeavesKeeps ==
    ASSUME Inv, NEW closed, PageLeaves(closed)
    PROVE  Inv'
<1>1. PageOK /\ WindowsOK
  BY InvParts
<1>2. asked \in Nat /\ asked' = asked /\ of' = of /\ watch' = watch /\ kind' = kind /\ leaving' = leaving
  BY <1>1, DetachedAssumption DEF PageOK, PageLeaves, attemptVars
<1>3. PageOK'
  BY <1>1, <1>2 DEF PageOK, PageLeaves
<1>4. Watched(records, keys, polls, of, watch)'
  BY DEF PageLeaves, Watched
<1>5. WindowsOK'
  BY <1>1, <1>2, FewerWindows DEF PageLeaves
<1> QED
  BY <1>3, <1>4, <1>5, InvParts, PTL

\* Steps that forget sessions and create no window.
LEMMA ForgetStepKeeps ==
    ASSUME Inv, NEW S \in SUBSET Sessions, Forget(S),
           UNCHANGED <<asked, of, watch, asking, kind, open>>,
           listening' \subseteq listening, leaving' \subseteq leaving
    PROVE  Inv'
<1>1. PageOK' /\ Watched(records, keys, polls, of, watch)'
  BY ForgetKeeps
<1>2. WindowsOK'
  BY InvParts, FewerWindows, DetachedAssumption DEF PageOK
<1> QED
  BY <1>1, <1>2, InvParts, PTL

\* Steps of the browser alone.
LEMMA BrowserStepKeeps ==
    ASSUME Inv, UNCHANGED <<attemptVars, pageVars, kind>>,
           open' \subseteq open, leaving' \subseteq leaving \union open
    PROVE  Inv'
<1>1. PageOK' /\ Watched(records, keys, polls, of, watch)'
  BY InvParts DEF PageOK, Watched, attemptVars, pageVars
<1>2. WindowsOK'
  BY InvParts, FewerWindows, DetachedAssumption DEF PageOK, attemptVars
<1> QED
  BY <1>1, <1>2, InvParts, PTL

LEMMA Inductive == Inv /\ [Next]_vars => Inv'
<1> SUFFICES ASSUME Inv, [Next]_vars PROVE Inv'
  OBVIOUS
<1>0. PageOK /\ Watched(records, keys, polls, of, watch)
  BY InvParts
<1>1. ASSUME NEW s \in Sessions, OpenAgain(s) PROVE Inv'
  <2>1. s \in keys
    BY <1>0, <1>1 DEF OpenAgain, Alive, Watched
  <2> QED
    BY <1>1, <2>1, BrowserStepKeeps DEF OpenAgain, pageVars, windowVars
<1>2. ASSUME NEW s \in Sessions, OpenDetached(s) PROVE Inv'
  BY <1>2, OpenDetachedKeeps
<1>3. ASSUME NEW s \in Sessions, FocusDetached(s) PROVE Inv'
  BY <1>3, ForgetStepKeeps DEF FocusDetached, attemptVars, windowVars
<1>4. ASSUME NEW p \in Attempts, PipGranted(p) PROVE Inv'
  BY <1>4, PipGrantedKeeps
<1>5. ASSUME NEW p \in Attempts, PipRefused(p) PROVE Inv'
  BY <1>5, PipRefusedKeeps
<1>6. ASSUME NEW p \in Attempts, Poll(p) PROVE Inv'
  <2>1. {of[p]} \in SUBSET Sessions
    BY <1>0, <1>6 DEF PageOK
  <2> QED
    BY <1>6, <2>1, ForgetStepKeeps DEF Poll, attemptVars, windowVars
<1>7. ASSUME NEW w \in Attempts, PageHides(w) PROVE Inv'
  <2> DEFINE heard == {p \in listening : watch[p] = w}
  <2>1. listening \subseteq Attempts
    BY <1>0, DetachedAssumption DEF PageOK, Attempts
  <2>2. {of[p] : p \in heard} \in SUBSET Sessions
    BY <1>0, <2>1 DEF PageOK
  <2>3. Forget({of[p] : p \in heard}) /\ listening' \subseteq listening /\ leaving' \subseteq leaving
    BY <1>7 DEF PageHides
  <2> QED
    BY <1>7, <2>2, <2>3, ForgetStepKeeps DEF PageHides, attemptVars
<1>8. ASSUME NEW w \in Attempts, CloseWindow(w) PROVE Inv'
  BY <1>8, BrowserStepKeeps DEF CloseWindow
<1>9. ASSUME NEW w \in Attempts, ReloadPopup(w) PROVE Inv'
  BY <1>9, BrowserStepKeeps DEF ReloadPopup
<1>10. ASSUME NEW w \in Attempts, AttachDetached(w) PROVE Inv'
  BY <1>10, PageLeavesKeeps DEF AttachDetached
<1>11. CASE ReloadPage
  BY <1>11, PageLeavesKeeps DEF ReloadPage
<1>12. CASE UNCHANGED vars
  BY <1>12, BrowserStepKeeps DEF vars, windowVars
<1> QED
  BY <1>1, <1>2, <1>3, <1>4, <1>5, <1>6, <1>7, <1>8, <1>9, <1>10, <1>11, <1>12 DEF Next

LEMMA Invariance == Spec => []Inv
BY Initially, Inductive, PTL DEF Spec

-----------------------------------------------------------------------------
(* Every reachable state is well typed, for any number of sessions, any    *)
(* naming and any number of clicks: the browser never has two              *)
(* Picture-in-Picture windows of the page, nor two popups of one name.     *)
THEOREM TypeCorrect == Spec => []TypeOK
<1>1. Inv => TypeOK
  BY DEF Inv
<1> QED
  BY <1>1, Invariance, PTL

(* A placeholder is shown exactly for the sessions with a record, and each *)
(* record has an interval that runs and knows window and session           *)
(* (useDetachedTerminalWindows).                                           *)
THEOREM EveryPlaceholderIsWatched == Spec => []PlaceholderIsWatched
<1>1. Inv => PlaceholderIsWatched
  BY DEF Inv
<1> QED
  BY <1>1, Invariance, PTL
=============================================================================
