------------------------- MODULE HookMetadataProofs -------------------------
(***************************************************************************)
(* Proofs about HookMetadata for any number of hooks, requests and events: *)
(* its types, that it implements MetadataStore, that the first title and   *)
(* session id stay, that the status is true once it was told, and that the *)
(* mark of a response a request has read covers no other response.         *)
(***************************************************************************)
EXTENDS HookMetadata, TLAPS

\* writer is a function on the writers.
IsWriters == writer = [w \in Writers |-> writer[w]]

\* An open transaction that nobody outdated has the row of the moment.
Current == \A w \in Open \ stale : row # Nothing /\ writer[w].snap = row

\* Only the hooks of tool calls overlap, and no other runs during a tool call.
Alone ==
    /\ \A h \in Hooks : Busy(h) => writer[h].event \in Events
    /\ agent.tool # NoTools => OnlyToolHooksRun
    /\ \A g, h \in Hooks : Busy(g) /\ Busy(h) /\ g # h => writer[h].event \in ToolEvents
    /\ clock = 0 => NoHookRuns /\ agent.tool = NoTools

\* A name about to be merged is not in the row yet, and only the one hook
\* whose event gives it is about to merge it.
NameEvent(k) == IF k = "title" THEN "user-prompt-submit" ELSE "session-start"
Unnamed ==
    \A w \in Writers : \A k \in {"title", "agentId"} \intersect DOMAIN writer[w].fields :
        /\ w \in Hooks
        /\ writer[w].event = NameEvent(k)
        /\ row # Nothing => row[k] = 0

\* A request about to mark the session seen keeps the row it has read.
Keeps == \A w \in Writers : "seen" \in DOMAIN writer[w].fields => writer[w].saw # Nothing

Inv == TypeOK /\ IsWriters /\ Current /\ Alone /\ Unnamed /\ Keeps

\* A report of activity is metadata without a name.
LEMMA ActivityIsMetadata ==
    ASSUME NEW s \in States, clock \in 0..MaxEvents, NEW f, f = Activity(s)
    PROVE  Metadata(f) /\ {"title", "agentId", "seen"} \intersect DOMAIN f = {}
<1>1. f = [state |-> s, active |-> clock]
  BY DEF Activity
<1>2. DOMAIN f = {"state", "active"} /\ f["state"] = s /\ f["active"] = clock
  BY <1>1
<1>3. f = [k \in DOMAIN f |-> f[k]]
  BY <1>1
<1> QED
  BY <1>2, <1>3 DEF Metadata, Keys, Times

\* What a hook computes is metadata: never empty, each field of its type, and
\* a name only if its event gives it and the row has none.
LEMMA HookFieldsAreMetadata ==
    ASSUME NEW e \in Events, NEW r, clock \in 0..MaxEvents,
           NEW f \in HookFields(e, r)
    PROVE  /\ Metadata(f)
           /\ \A k \in {"title", "agentId"} \intersect DOMAIN f : e = NameEvent(k) /\ r[k] = 0
           /\ "seen" \notin DOMAIN f
<1>0. CASE \E s \in States : f = Activity(s)
  BY <1>0, ActivityIsMetadata
<1>1. CASE e = "session-start"
  <2>1. CASE r["agentId"] = 0 /\ f = [state |-> "working", active |-> clock, agentId |-> clock]
    <3>1. /\ DOMAIN f = {"state", "active", "agentId"}
          /\ f["state"] = "working" /\ f["active"] = clock /\ f["agentId"] = clock
      BY <2>1
    <3>2. f = [k \in DOMAIN f |-> f[k]]
      BY <2>1
    <3>3. Metadata(f)
      BY <3>1, <3>2 DEF Metadata, Keys, States, Times
    <3> QED
      BY <1>1, <2>1, <3>1, <3>3 DEF NameEvent
  <2> QED
    BY <1>0, <1>1, <2>1 DEF HookFields, States
<1>2. CASE e = "user-prompt-submit"
  <2>1. CASE r["title"] = 0 /\ f = [state |-> "working", active |-> clock, title |-> clock]
    <3>1. /\ DOMAIN f = {"state", "active", "title"}
          /\ f["state"] = "working" /\ f["active"] = clock /\ f["title"] = clock
      BY <2>1
    <3>2. f = [k \in DOMAIN f |-> f[k]]
      BY <2>1
    <3>3. Metadata(f)
      BY <3>1, <3>2 DEF Metadata, Keys, States, Times
    <3> QED
      BY <1>2, <2>1, <3>1, <3>3 DEF NameEvent
  <2>2. f = Activity("working") \/ (r["title"] = 0 /\ f = [state |-> "working", active |-> clock, title |-> clock])
    BY <1>2 DEF HookFields, TitleFields
  <2> QED
    BY <1>0, <2>1, <2>2 DEF States
<1>3. CASE e = "stop"
  <2>1. f = [state |-> "prompt", active |-> clock, msg |-> clock]
    BY <1>3 DEF HookFields
  <2>2. /\ DOMAIN f = {"state", "active", "msg"}
        /\ f["state"] = "prompt" /\ f["active"] = clock /\ f["msg"] = clock
    BY <2>1
  <2>3. f = [k \in DOMAIN f |-> f[k]]
    BY <2>1
  <2>4. Metadata(f)
    BY <2>2, <2>3 DEF Metadata, Keys, States, Times
  <2> QED
    BY <2>2, <2>4
<1>4. CASE e \in ToolEvents
  BY <1>0, <1>4 DEF HookFields, ToolEvents, States
<1> QED
  BY <1>1, <1>2, <1>3, <1>4 DEF Events

\* Merging metadata into metadata gives a row.
LEMMA MergedIsMetadata ==
    ASSUME NEW f, NEW r, Metadata(f), Metadata(r), DOMAIN r = Keys
    PROVE  Metadata(Merged(f, r)) /\ DOMAIN Merged(f, r) = Keys /\ Merged(f, r) # Nothing
BY DEF Metadata, Merged, Keys, Nothing

LEMMA MetadataIsSomething == \A f : Metadata(f) => f # Nothing
BY DEF Metadata, Nothing

LEMMA InitInv == Init => Inv
<1> SUFFICES ASSUME Init PROVE Inv
  OBVIOUS
<1>1. /\ DOMAIN row = Keys /\ row = [k \in DOMAIN row |-> row[k]]
      /\ row["state"] = "working" /\ \A k \in Keys \ {"state"} : row[k] = 0
  BY DEF Init, Keys
<1>2. Metadata(row)
  BY <1>1, Bounds DEF Metadata, Keys, States, Times
<1>3. WriterOK(Idle)
  BY DEF WriterOK, Idle
<1>4. DOMAIN Nothing = {}
  BY DEF Nothing
<1>5. TypeOK
  <2>1. DOMAIN writer = Writers /\ \A w \in Writers : WriterOK(writer[w])
    BY <1>3 DEF Init
  <2>2. agent \in [busy : BOOLEAN, tool : [Hooks -> {"none", "running", "asking"}]]
        /\ agent.tool = NoTools
    BY DEF Init, NoTools
  <2>3. clock \in 0..MaxEvents /\ stale \subseteq Open
    BY Bounds DEF Init
  <2>4. told \in BOOLEAN /\ marks \in [late : BOOLEAN, read : Times]
    <3>1. 0 \in Times
      BY Bounds DEF Times
    <3>2. told = FALSE /\ marks = [late |-> FALSE, read |-> 0]
      BY DEF Init
    <3> QED
      BY <3>1, <3>2
  <2> QED
    BY <1>1, <1>2, <2>1, <2>2, <2>3, <2>4 DEF TypeOK
<1>6. IsWriters /\ Current /\ Alone
  BY DEF Init, Idle, IsWriters, Current, Alone, Open, Busy, NoHookRuns, Writers
<1>7. Unnamed /\ Keeps
  BY <1>4 DEF Init, Idle, Unnamed, Keeps
<1> QED
  BY <1>5, <1>6, <1>7 DEF Inv

-----------------------------------------------------------------------------
\* Hook h is started for event e while it is idle.
LEMMA RunKeepsInv ==
    ASSUME Inv, NEW h \in Hooks, NEW e \in Events, Run(h, e), ~Busy(h),
           agent' \in [busy : BOOLEAN, tool : [Hooks -> {"none", "running", "asking"}]],
           ~agent'.busy => agent'.tool = NoTools,
           agent'.tool # NoTools => e \in ToolEvents,
           \A g \in Hooks \ {h} : Busy(g) => e \in ToolEvents /\ writer[g].event \in ToolEvents
    PROVE  Inv'
<1> DEFINE x == [at |-> "fired", event |-> e, fields |-> Nothing, snap |-> Nothing,
                 saw |-> Nothing]
<1>1. writer' = [writer EXCEPT ![h] = x] /\ clock' = clock + 1 /\ clock < MaxEvents
      /\ row' = row /\ stale' = stale /\ told' = told /\ marks' = marks
  BY DEF Run, Fired
<1>2. WriterOK(x) /\ DOMAIN x.fields = {}
  BY DEF WriterOK, Nothing
<1>3. /\ IsWriters' /\ writer'[h] = x
      /\ \A w \in Writers \ {h} : writer'[w] = writer[w]
      /\ DOMAIN writer' = Writers
  BY <1>1 DEF Inv, IsWriters, Writers
<1>4. Open' = Open
  BY <1>3 DEF Open, Busy, Inv, TypeOK
<1>5. TypeOK'
  BY <1>1, <1>2, <1>3, <1>4, Bounds DEF Inv, TypeOK, NoTools
<1>6. Current'
  BY <1>1, <1>3, <1>4 DEF Inv, Current, Open
<1>7. Alone'
  BY <1>1, <1>3, Bounds DEF Inv, TypeOK, Alone, Busy, NoHookRuns, OnlyToolHooksRun, NoTools, Writers
<1>8. Unnamed' /\ Keeps'
  BY <1>1, <1>2, <1>3 DEF Inv, Unnamed, Keeps
<1> QED
  BY <1>3, <1>5, <1>6, <1>7, <1>8 DEF Inv

\* Writers in S go idle, whatever else they were doing, and the row stays.
LEMMA EndsKeepInv ==
    ASSUME Inv, NEW S \in SUBSET Writers,
           writer' = [w \in Writers |-> IF w \in S THEN Idle ELSE writer[w]],
           stale' = stale \ S, UNCHANGED <<row, clock, marks>>, told' \in BOOLEAN,
           agent' \in [busy : BOOLEAN, tool : [Hooks -> {"none", "running", "asking"}]],
           ~agent'.busy => agent'.tool = NoTools, agent'.tool \in {agent.tool, NoTools}
    PROVE  Inv'
<1>1. WriterOK(Idle) /\ DOMAIN Idle.fields = {} /\ Idle.at = "idle"
  BY DEF WriterOK, Idle, Nothing
<1>2. \A w \in Writers : writer'[w] = IF w \in S THEN Idle ELSE writer[w]
  OBVIOUS
<1>3. Open' = Open \ S
  BY <1>1, <1>2 DEF Open
<1>4. TypeOK' /\ IsWriters'
  BY <1>1, <1>2, <1>3 DEF Inv, TypeOK, IsWriters, NoTools
<1>5. Current'
  BY <1>2, <1>3 DEF Inv, Current, Open
<1>6. Alone'
  BY <1>1, <1>2 DEF Inv, Alone, Busy, NoHookRuns, OnlyToolHooksRun, NoTools, Writers
<1>7. Unnamed' /\ Keeps'
  BY <1>1, <1>2 DEF Inv, Unnamed, Keeps
<1> QED
  BY <1>4, <1>5, <1>6, <1>7 DEF Inv

\* Writer w has decided on the fields f, and keeps s of what it read.
Computes(w, f, s) ==
    writer' = [v \in Writers |->
        IF v = w THEN [at |-> "computed", event |-> writer[w].event, fields |-> f,
                       snap |-> writer[w].snap, saw |-> s]
        ELSE writer[v]]

LEMMA HookComputes ==
    ASSUME Inv, NEW w \in Writers, NEW f,
           writer' = [writer EXCEPT ![w].at = "computed", ![w].fields = f]
    PROVE  Computes(w, f, writer[w].saw)
<1>1. /\ writer[w] = [at |-> writer[w].at, event |-> writer[w].event,
                     fields |-> writer[w].fields, snap |-> writer[w].snap,
                     saw |-> writer[w].saw]
      /\ DOMAIN writer = Writers
  BY DEF Inv, TypeOK, WriterOK
<1>2. writer'[w] = [at |-> "computed", event |-> writer[w].event, fields |-> f,
                    snap |-> writer[w].snap, saw |-> writer[w].saw]
  BY <1>1
<1>3. \A v \in Writers \ {w} : writer'[v] = writer[v]
  BY <1>1
<1>4. writer' = [v \in Writers |-> writer'[v]]
  BY <1>1
<1> QED
  BY <1>2, <1>3, <1>4 DEF Computes

LEMMA PatchComputes ==
    ASSUME Inv, NEW w \in Writers, NEW f, NEW s,
           writer' = [writer EXCEPT ![w].at = "computed", ![w].saw = s, ![w].fields = f]
    PROVE  Computes(w, f, s)
<1>1. /\ writer[w] = [at |-> writer[w].at, event |-> writer[w].event,
                     fields |-> writer[w].fields, snap |-> writer[w].snap,
                     saw |-> writer[w].saw]
      /\ DOMAIN writer = Writers
  BY DEF Inv, TypeOK, WriterOK
<1>2. writer'[w] = [at |-> "computed", event |-> writer[w].event, fields |-> f,
                    snap |-> writer[w].snap, saw |-> s]
  BY <1>1
<1>3. \A v \in Writers \ {w} : writer'[v] = writer[v]
  BY <1>1
<1>4. writer' = [v \in Writers |-> writer'[v]]
  BY <1>1
<1> QED
  BY <1>2, <1>3, <1>4 DEF Computes

\* Writer w has decided on metadata fields that give no name the row has.
LEMMA ComputedKeepsInv ==
    ASSUME Inv, NEW w \in Writers, NEW f, Metadata(f),
           writer[w].at \notin {"computed", "tx"},
           NEW s, s # Nothing => Metadata(s) /\ DOMAIN s = Keys,
           "seen" \in DOMAIN f => s # Nothing,
           Computes(w, f, s),
           UNCHANGED <<row, stale, agent, clock, told, marks>>,
           w \in Requests \/ Busy(w),
           \A k \in {"title", "agentId"} \intersect DOMAIN f :
               w \in Hooks /\ writer[w].event = NameEvent(k) /\ (row # Nothing => row[k] = 0)
    PROVE  Inv'
<1>1. /\ row' = row /\ stale' = stale /\ agent' = agent /\ clock' = clock
      /\ told' \in BOOLEAN /\ marks' = marks
  BY DEF Inv, TypeOK
<1>2. /\ IsWriters' /\ DOMAIN writer' = Writers
      /\ \A v \in Writers \ {w} : writer'[v] = writer[v]
      /\ writer'[w] = [at |-> "computed", event |-> writer[w].event, fields |-> f,
                       snap |-> writer[w].snap, saw |-> s]
  BY DEF Computes, IsWriters
<1>3. WriterOK(writer'[w])
  BY <1>2 DEF Inv, TypeOK, WriterOK
<1>4. Open' = Open
  BY <1>2 DEF Open
<1>5. TypeOK'
  BY <1>1, <1>2, <1>3, <1>4 DEF Inv, TypeOK, NoTools
<1>6. Current'
  BY <1>1, <1>2, <1>4 DEF Inv, Current, Open
<1>7. Alone'
  BY <1>1, <1>2, Distinct DEF Inv, Alone, Busy, NoHookRuns, OnlyToolHooksRun, NoTools, Writers
<1>8. Unnamed' /\ Keeps'
  BY <1>1, <1>2 DEF Inv, Unnamed, Keeps
<1> QED
  BY <1>2, <1>5, <1>6, <1>7, <1>8 DEF Inv

\* Writer w opens its transaction on the row.
LEMMA BeginKeepsInv ==
    ASSUME Inv, NEW w \in Writers, Begin(w) PROVE Inv'
<1>1. CASE row = Nothing
  <2>1. writer' = [writer EXCEPT ![w] = Idle] /\ w \notin Open
    BY <1>1 DEF Begin, Open
  <2>2. /\ writer' = [v \in Writers |-> IF v \in {w} THEN Idle ELSE writer[v]]
        /\ stale' = stale \ {w}
    <3>1. stale' = stale /\ w \notin stale
      BY <2>1 DEF Inv, TypeOK, Begin
    <3> QED
      BY <2>1, <3>1 DEF Inv, TypeOK, IsWriters
  <2>3. UNCHANGED <<row, clock, marks>> /\ agent' = agent
    BY DEF Begin
  <2>4. told' \in BOOLEAN
    BY DEF Begin, Inv, TypeOK
  <2> QED
    BY <2>2, <2>3, <2>4, EndsKeepInv DEF Inv, TypeOK
<1>2. CASE row # Nothing
  <2>1. /\ row' = row /\ stale' = stale /\ agent' = agent /\ clock' = clock
        /\ marks' = marks
    BY DEF Begin
  <2>2. told' \in BOOLEAN
    BY DEF Begin, Inv, TypeOK
  <2>3. /\ IsWriters' /\ DOMAIN writer' = Writers
        /\ \A v \in Writers \ {w} : writer'[v] = writer[v]
        /\ writer'[w] = [at |-> "tx", event |-> writer[w].event,
                         fields |-> writer[w].fields, snap |-> row,
                         saw |-> writer[w].saw]
    <3>1. WriterOK(writer[w]) /\ w \in DOMAIN writer
      BY DEF Inv, TypeOK
    <3>2. writer' = [writer EXCEPT ![w].at = "tx", ![w].snap = row]
      BY <1>2 DEF Begin
    <3> QED
      BY <3>1, <3>2 DEF Inv, IsWriters, WriterOK
  <2>4. WriterOK(writer'[w]) /\ writer[w].at = "computed"
    BY <2>3 DEF Inv, TypeOK, WriterOK, Begin
  <2>5. Open' = Open \union {w} /\ w \notin Open
    BY <2>3, <2>4 DEF Open
  <2>6. TypeOK'
    BY <2>1, <2>2, <2>3, <2>4, <2>5 DEF Inv, TypeOK, NoTools
  <2>7. Current'
    BY <1>2, <2>1, <2>3, <2>5 DEF Inv, Current, Open
  <2>8. Alone'
    BY <2>1, <2>3, <2>4 DEF Inv, Alone, Busy, NoHookRuns, OnlyToolHooksRun, NoTools, Writers
  <2>9. Unnamed' /\ Keeps'
    BY <2>1, <2>3 DEF Inv, Unnamed, Keeps
  <2> QED
    BY <2>3, <2>6, <2>7, <2>8, <2>9 DEF Inv
<1> QED
  BY <1>1, <1>2

\* Writer w's transaction commits and outdates every other.
LEMMA CommitKeepsInv ==
    ASSUME Inv, NEW w \in Writers, Commit(w)
    PROVE  Inv' /\ row # Nothing /\ row' = Merged(writer[w].fields, row) /\ row' # Nothing
<1>1. row # Nothing /\ writer[w].snap = row
  BY DEF Commit, Inv, Current, Open
<1>2. row' = Merged(writer[w].fields, row)
  BY <1>1 DEF Commit
<1>3. Metadata(row') /\ DOMAIN row' = Keys /\ row' # Nothing
  BY <1>1, <1>2, MergedIsMetadata DEF Inv, TypeOK, WriterOK, Commit
<1>4. /\ \A v \in Writers : writer'[v] = IF v = w THEN Idle ELSE writer[v]
      /\ IsWriters' /\ DOMAIN writer' = Writers
      /\ agent' = agent /\ clock' = clock /\ stale' = Open \ {w}
  BY DEF Commit, Outdate, Inv, TypeOK, IsWriters
<1>5. told' \in BOOLEAN /\ marks' \in [late : BOOLEAN, read : Times]
  <2>1. told' \in BOOLEAN
    BY Zenon DEF Commit, Note, Inv, TypeOK
  <2>2. marks'.late \in BOOLEAN /\ marks' = [late |-> marks'.late, read |-> marks'.read]
    <3>1. marks.late \in BOOLEAN
      BY DEF Inv, TypeOK
    <3> QED
      BY <3>1, Zenon DEF Commit, Note
  <2>3. marks'.read \in Times
    <3>1. CASE "seen" \in DOMAIN writer[w].fields
      <4>1. writer[w].saw # Nothing
        BY <3>1 DEF Inv, Keeps
      <4>2. writer[w].saw["msg"] \in Times
        BY <4>1 DEF Inv, TypeOK, WriterOK, Metadata, Keys
      <4> QED
        BY <3>1, <4>2 DEF Commit, Note
    <3>2. CASE "seen" \notin DOMAIN writer[w].fields
      <4>1. marks.read \in Times
        BY DEF Inv, TypeOK
      <4> QED
        BY <3>2, <4>1 DEF Commit, Note
    <3> QED
      BY <3>1, <3>2
  <2> QED
    BY <2>1, <2>2, <2>3
<1>6. WriterOK(Idle) /\ DOMAIN Idle.fields = {} /\ Idle.at = "idle"
  BY DEF WriterOK, Idle, Nothing
<1>7. Open' = Open \ {w}
  BY <1>4, <1>6 DEF Open
<1>8. TypeOK'
  BY <1>3, <1>4, <1>5, <1>6, <1>7 DEF Inv, TypeOK, NoTools
<1>9. Current'
  BY <1>4, <1>7 DEF Current
<1>10. Alone'
  BY <1>4, <1>6 DEF Inv, Alone, Busy, NoHookRuns, OnlyToolHooksRun, NoTools, Writers
<1>11. Unnamed'
  <2> SUFFICES ASSUME NEW v \in Writers,
                      NEW k \in {"title", "agentId"} \intersect DOMAIN writer'[v].fields
               PROVE  v \in Hooks /\ writer'[v].event = NameEvent(k) /\ row'[k] = 0
    BY DEF Unnamed
  <2>1. v # w /\ writer'[v] = writer[v]
    BY <1>4, <1>6
  <2>2. v \in Hooks /\ writer[v].event = NameEvent(k) /\ row[k] = 0
    BY <1>1, <2>1 DEF Inv, Unnamed
  <2>3. Busy(v) /\ Busy(w)
    <3>1. writer[v].fields # Nothing
      BY <2>1 DEF Nothing
    <3> QED
      BY <3>1 DEF Inv, TypeOK, WriterOK, Busy, Commit
  <2>4. k \notin DOMAIN writer[w].fields
    <3> SUFFICES ASSUME k \in DOMAIN writer[w].fields PROVE FALSE
      OBVIOUS
    <3>1. w \in Hooks /\ writer[w].event = NameEvent(k)
      BY DEF Inv, Unnamed
    <3> QED
      BY <2>1, <2>2, <2>3, <3>1 DEF Inv, Alone, ToolEvents, NameEvent
  <2>5. row'[k] = row[k]
    BY <1>2, <2>4 DEF Merged, Keys
  <2> QED
    BY <2>1, <2>2, <2>5
<1>12. Keeps'
  BY <1>4, <1>6 DEF Inv, Keeps
<1> QED
  BY <1>1, <1>2, <1>3, <1>4, <1>8, <1>9, <1>10, <1>11, <1>12 DEF Inv

\* Restart kills the hooks, starts at most one, and the engine waits to merge.
LEMMA RestartKeepsInv ==
    ASSUME Inv, NEW r \in Requests, NEW started \in {{}} \union {{h} : h \in Hooks},
           Restart(r, started)
    PROVE  Inv'
<1>1. /\ row' = row /\ clock' = clock + 1 /\ clock < MaxEvents /\ stale' = stale \ Hooks
      /\ marks' = marks
      /\ agent' = [busy |-> FALSE, tool |-> NoTools] /\ writer[r] = Idle
  BY DEF Restart
<1>2. told' \in BOOLEAN
  BY DEF Restart
<1>3. \A g, h \in started : g = h
  OBVIOUS
<1>4. /\ \A w \in Writers : writer'[w] = IF w = r THEN Fired("restart")
                                         ELSE IF w \in started THEN Fired("session-start")
                                         ELSE IF w \in Hooks THEN Idle ELSE writer[w]
      /\ IsWriters' /\ DOMAIN writer' = Writers
  BY DEF Restart, IsWriters
<1>5. /\ WriterOK(Idle) /\ DOMAIN Idle.fields = {} /\ Idle.at = "idle"
      /\ WriterOK(Fired("restart")) /\ DOMAIN Fired("restart").fields = {}
      /\ Fired("restart").at = "fired"
      /\ WriterOK(Fired("session-start")) /\ DOMAIN Fired("session-start").fields = {}
      /\ Fired("session-start").at = "fired"
  BY DEF WriterOK, Idle, Fired, Nothing, Events
<1>6. started \subseteq Hooks /\ r \notin Hooks
  BY Distinct
<1>7. Open' = Open \ Hooks
  BY <1>1, <1>4, <1>5, <1>6 DEF Open, Writers
<1>8. TypeOK'
  <2>1. agent' \in [busy : BOOLEAN, tool : [Hooks -> {"none", "running", "asking"}]]
        /\ agent'.tool = NoTools
    BY <1>1 DEF NoTools
  <2>2. \A w \in Writers : WriterOK(writer'[w])
    BY <1>4, <1>5 DEF Inv, TypeOK
  <2>3. clock' \in 0..MaxEvents /\ stale' \subseteq Open'
    BY <1>1, <1>7, Bounds DEF Inv, TypeOK
  <2> QED
    BY <1>1, <1>2, <1>4, <2>1, <2>2, <2>3 DEF Inv, TypeOK, NoTools
<1>9. Current'
  BY <1>1, <1>4, <1>5, <1>6, <1>7 DEF Inv, Current, Open
<1>10. Alone'
  <2>1. \A h \in Hooks : Busy(h)' => h \in started /\ writer'[h] = Fired("session-start")
    BY <1>4, <1>5, <1>6 DEF Busy, Writers
  <2>2. \A h \in Hooks : Busy(h)' => writer'[h].event \in Events
    BY <2>1 DEF Fired, Events
  <2>3. agent'.tool = NoTools' /\ clock' # 0
    BY <1>1, Bounds DEF Inv, TypeOK, NoTools
  <2> QED
    BY <1>3, <2>1, <2>2, <2>3 DEF Alone
<1>11. Unnamed' /\ Keeps'
  BY <1>1, <1>4, <1>5 DEF Inv, Unnamed, Keeps
<1> QED
  BY <1>4, <1>8, <1>9, <1>10, <1>11 DEF Inv

\* The row changes in a transaction elsewhere, or is deleted.
LEMMA OutdatingKeepsInv ==
    ASSUME Inv, stale' = Open, row' \in {row, Nothing},
           writer' = writer, agent' = agent, clock' = clock, told' = told, marks' = marks
    PROVE  Inv'
<1>1. Open' = Open
  BY DEF Open
<1>2. TypeOK'
  BY <1>1 DEF Inv, TypeOK, NoTools
<1>3. IsWriters' /\ Current' /\ Alone'
  BY <1>1 DEF Inv, IsWriters, Current, Alone, Busy, NoHookRuns, OnlyToolHooksRun, NoTools
<1>4. Unnamed' /\ Keeps'
  BY DEF Inv, Unnamed, Keeps
<1> QED
  BY <1>2, <1>3, <1>4 DEF Inv

\* What a PATCH computes is metadata without a name of the agent's.
LEMMA PatchKeepsInv ==
    ASSUME Inv, NEW r \in Requests,
           NEW parts \in (SUBSET {"name", "seen", "state"}) \ {{}}, Patch(r, parts)
    PROVE  Inv'
<1> DEFINE f == [k \in parts |-> CASE k = "name" -> 1
                                   [] k = "seen" -> DeliveredAt(row)
                                   [] k = "state" -> "done"]
<1>1. "seen" \in parts => DeliveredAt(row) \in Times
  BY DEF Patch, DeliveredAt, Inv, TypeOK, Metadata, Keys, Times
<1>2. DOMAIN f = parts /\ parts # {} /\ parts \subseteq {"name", "seen", "state"}
  <2>1. parts \subseteq {"name", "seen", "state"}
    OBVIOUS
  <2>2. parts # {}
    OBVIOUS
  <2> QED
    BY <2>1, <2>2
<1>3. \A k \in parts : f[k] \in IF k = "state" THEN States ELSE Times
  <2> SUFFICES ASSUME NEW k \in parts PROVE f[k] \in IF k = "state" THEN States ELSE Times
    OBVIOUS
  <2>1. CASE k = "name"
    BY <2>1, Bounds DEF Times
  <2>2. CASE k = "seen"
    BY <2>2, <1>1
  <2>3. CASE k = "state"
    BY <2>3 DEF States
  <2> QED
    BY <1>2, <2>1, <2>2, <2>3
<1>4. Metadata(f)
  <2>1. f = [k \in DOMAIN f |-> f[k]]
    BY Zenon
  <2> HIDE DEF f
  <2> QED
    BY <1>2, <1>3, <2>1 DEF Metadata, Keys
<1>5. {"title", "agentId"} \intersect DOMAIN f = {}
  BY <1>2
<1>6. writer[r].at = "idle" /\ r \in Writers
  <2>1. writer[r] = Idle
    BY Zenon DEF Patch
  <2> QED
    BY <2>1 DEF Idle, Writers
<1> DEFINE s == IF parts = {"name"} THEN Nothing ELSE row
<1>7. /\ writer' = [writer EXCEPT ![r].at = "computed", ![r].saw = s, ![r].fields = f]
      /\ UNCHANGED <<row, stale, agent, clock, told, marks>>
  BY Zenon DEF Patch
<1>8. s # Nothing => Metadata(s) /\ DOMAIN s = Keys
  BY DEF Inv, TypeOK
<1>9. "seen" \in DOMAIN f => s # Nothing
  BY <1>2 DEF Patch
<1> HIDE DEF f, s
<1>10. Computes(r, f, s)
  BY <1>6, <1>7, PatchComputes
<1> QED
  BY <1>4, <1>5, <1>6, <1>7, <1>8, <1>9, <1>10, ComputedKeepsInv

LEMMA HookStepKeepsInv ==
    ASSUME Inv, NEW h \in Hooks, HookStep(h) PROVE Inv'
<1> h \in Writers /\ {h} \in SUBSET Writers
  BY DEF Writers
<1>0. /\ agent \in [busy : BOOLEAN, tool : [Hooks -> {"none", "running", "asking"}]]
      /\ ~agent.busy => agent.tool = NoTools
  BY DEF Inv, TypeOK
<1>1. ASSUME StartAgent(h) PROVE Inv'
  <2>1. NoHookRuns /\ agent' = agent /\ Run(h, "session-start") /\ agent.tool = NoTools
    BY <1>1 DEF StartAgent, Inv, Alone
  <2>2. \A g \in Hooks : ~Busy(g)
    BY <2>1 DEF NoHookRuns
  <2> QED
    BY <1>0, <2>1, <2>2, RunKeepsInv DEF Events
<1>2. ASSUME SubmitPrompt(h) PROVE Inv'
  <2>1. NoHookRuns /\ agent' = [agent EXCEPT !.busy = TRUE] /\ Run(h, "user-prompt-submit")
        /\ agent.tool = NoTools
    BY <1>0, <1>2 DEF SubmitPrompt
  <2>2. \A g \in Hooks : ~Busy(g)
    BY <2>1 DEF NoHookRuns
  <2> QED
    BY <1>0, <2>1, <2>2, RunKeepsInv DEF Events
<1>3. ASSUME StartTool(h) \/ AskUser(h) \/ EndTool(h) PROVE Inv'
  <2>1. PICK e \in ToolEvents : Run(h, e)
    BY <1>3 DEF StartTool, AskUser, EndTool, ToolEvents
  <2>2. agent.busy /\ ~Busy(h)
    <3>1. agent.busy \/ agent.tool[h] # "none"
      BY <1>3 DEF StartTool, AskUser, EndTool
    <3>2. ~Busy(h)
      BY <1>3 DEF StartTool, AskUser, EndTool
    <3> QED
      BY <1>0, <3>1, <3>2 DEF NoTools
  <2>3. PICK s \in {"none", "running", "asking"} : agent' = [agent EXCEPT !.tool[h] = s]
    BY <1>3 DEF StartTool, AskUser, EndTool
  <2>4. /\ agent' \in [busy : BOOLEAN, tool : [Hooks -> {"none", "running", "asking"}]]
        /\ agent'.busy
    BY <1>0, <2>2, <2>3
  <2>5. OnlyToolHooksRun
    <3>1. OnlyToolHooksRun \/ agent.tool[h] # "none"
      BY <1>3 DEF StartTool, AskUser, EndTool
    <3> QED
      BY <3>1 DEF Inv, Alone, NoTools
  <2> QED
    BY <2>1, <2>2, <2>4, <2>5, RunKeepsInv DEF OnlyToolHooksRun, Events
<1>4. ASSUME EndTurn(h) PROVE Inv'
  <2>1. NoHookRuns /\ agent.tool = NoTools /\ agent' = [agent EXCEPT !.busy = FALSE]
        /\ Run(h, "stop")
    BY <1>4 DEF EndTurn
  <2>2. \A g \in Hooks : ~Busy(g)
    BY <2>1 DEF NoHookRuns
  <2> QED
    BY <1>0, <2>1, <2>2, RunKeepsInv DEF Events
<1>5. ASSUME KillHook(h) PROVE Inv'
  <2>1. writer' = [w \in Writers |-> IF w \in {h} THEN Idle ELSE writer[w]]
        /\ stale' = stale \ {h} /\ UNCHANGED <<row, clock, marks>> /\ agent' = agent
    BY <1>5 DEF KillHook, Inv, TypeOK, IsWriters
  <2>2. told' \in BOOLEAN
    BY <1>5 DEF KillHook
  <2> QED
    BY <1>0, <2>1, <2>2, EndsKeepInv
<1>6. ASSUME HookReads(h) PROVE Inv'
  <2>1. CASE row = Nothing
    <3>1. h \notin Open /\ writer' = [writer EXCEPT ![h] = Idle]
      BY <1>6, <2>1 DEF HookReads, Open
    <3>2. /\ writer' = [w \in Writers |-> IF w \in {h} THEN Idle ELSE writer[w]]
          /\ UNCHANGED <<row, clock, marks>> /\ agent' = agent
      <4>1. UNCHANGED <<row, clock, marks>> /\ agent' = agent
        BY <1>6 DEF HookReads
      <4> QED
        BY <3>1, <4>1 DEF Inv, TypeOK, IsWriters
    <3>4. stale' = stale \ {h}
      BY <1>6, <3>1 DEF HookReads, Inv, TypeOK
    <3>3. told' \in BOOLEAN
      BY <1>6 DEF HookReads, Inv, TypeOK
    <3> QED
      BY <1>0, <3>2, <3>3, <3>4, EndsKeepInv
  <2>2. CASE row # Nothing
    <3>1. PICK f \in HookFields(writer[h].event, row) :
            writer' = [writer EXCEPT ![h].at = "computed", ![h].fields = f]
      BY <1>6, <2>2 DEF HookReads
    <3>2. writer[h].event \in Events /\ clock \in 0..MaxEvents /\ writer[h].at = "fired"
      BY <1>6 DEF HookReads, Inv, TypeOK, Alone, Busy
    <3>3. /\ Metadata(f)
          /\ \A k \in {"title", "agentId"} \intersect DOMAIN f :
               writer[h].event = NameEvent(k) /\ row[k] = 0
          /\ "seen" \notin DOMAIN f
      BY <3>1, <3>2, HookFieldsAreMetadata
    <3>4. UNCHANGED <<row, stale, agent, clock, told, marks>>
      BY <1>6 DEF HookReads
    <3>5. Computes(h, f, writer[h].saw)
      BY <3>1, HookComputes
    <3>6. writer[h].saw # Nothing => Metadata(writer[h].saw) /\ DOMAIN writer[h].saw = Keys
      BY DEF Inv, TypeOK, WriterOK
    <3> QED
      BY <3>2, <3>3, <3>4, <3>5, <3>6, ComputedKeepsInv DEF Busy
  <2> QED
    BY <2>1, <2>2
<1> QED
  BY <1>1, <1>2, <1>3, <1>4, <1>5, <1>6 DEF HookStep

LEMMA RequestStepKeepsInv ==
    ASSUME Inv, NEW r \in Requests, RequestStep(r) PROVE Inv'
<1>1. ASSUME RestartStamps(r) PROVE Inv'
  <2>1. Metadata(Activity("prompt")) /\ {"title", "agentId"} \intersect DOMAIN Activity("prompt") = {}
    BY ActivityIsMetadata DEF Inv, TypeOK, States
  <2>2. r \in Writers /\ writer[r].at = "fired"
    BY <1>1 DEF RestartStamps, Writers
  <2>3. /\ writer' = [writer EXCEPT ![r].at = "computed", ![r].fields = Activity("prompt")]
        /\ UNCHANGED <<row, stale, agent, clock, told, marks>>
    BY <1>1 DEF RestartStamps
  <2>4. Computes(r, Activity("prompt"), writer[r].saw)
    BY <2>2, <2>3, HookComputes
  <2>5. writer[r].saw # Nothing => Metadata(writer[r].saw) /\ DOMAIN writer[r].saw = Keys
    BY <2>2 DEF Inv, TypeOK, WriterOK
  <2>6. "seen" \notin DOMAIN Activity("prompt")
    BY DEF Activity
  <2> QED
    BY <2>1, <2>2, <2>3, <2>4, <2>5, <2>6, ComputedKeepsInv
<1> QED
  BY <1>1, PatchKeepsInv, RestartKeepsInv DEF RequestStep

LEMMA RefuseKeepsInv ==
    ASSUME Inv, NEW w \in Writers, Refuse(w) PROVE Inv'
<1>1. /\ writer' = [v \in Writers |-> IF v \in {w} THEN Idle ELSE writer[v]]
      /\ stale' = stale \ {w} /\ UNCHANGED <<row, clock, marks>> /\ agent' = agent
  BY DEF Refuse, Inv, TypeOK, IsWriters
<1>2. told' \in BOOLEAN
  BY Zenon DEF Refuse
<1>3. /\ agent \in [busy : BOOLEAN, tool : [Hooks -> {"none", "running", "asking"}]]
      /\ ~agent.busy => agent.tool = NoTools
  BY DEF Inv, TypeOK
<1>4. {w} \in SUBSET Writers
  OBVIOUS
<1> QED
  BY <1>1, <1>2, <1>3, <1>4, EndsKeepInv

LEMMA InterruptKeepsInv ==
    ASSUME Inv, Interrupt PROVE Inv'
<1>1. /\ writer' = [v \in Writers |-> IF v \in Hooks THEN Idle ELSE writer[v]]
      /\ stale' = stale \ Hooks /\ UNCHANGED <<row, clock, marks>>
      /\ agent' = [busy |-> FALSE, tool |-> NoTools] /\ Hooks \in SUBSET Writers
  BY DEF Interrupt, Writers
<1>2. told' \in BOOLEAN
  BY DEF Interrupt
<1>3. /\ agent' \in [busy : BOOLEAN, tool : [Hooks -> {"none", "running", "asking"}]]
      /\ agent'.tool = NoTools
  BY <1>1 DEF NoTools
<1> QED
  BY <1>1, <1>2, <1>3, EndsKeepInv

LEMMA NextKeepsInv == Inv /\ [Next]_vars => Inv'
<1> SUFFICES ASSUME Inv, [Next]_vars PROVE Inv'
  OBVIOUS
<1>1. CASE \E h \in Hooks : HookStep(h)
  BY <1>1, HookStepKeepsInv
<1>2. CASE \E r \in Requests : RequestStep(r)
  BY <1>2, RequestStepKeepsInv
<1>3. CASE \E w \in Writers : Begin(w) \/ Commit(w) \/ Refuse(w)
  BY <1>3, BeginKeepsInv, CommitKeepsInv, RefuseKeepsInv
<1>4. CASE Interrupt
  BY <1>4, InterruptKeepsInv
<1>5. CASE CommitElsewhere \/ Delete
  <2>1. /\ stale' = Open /\ row' \in {row, Nothing}
        /\ writer' = writer /\ agent' = agent /\ clock' = clock
    BY <1>5 DEF CommitElsewhere, Delete
  <2>2. told' = told /\ marks' = marks
    BY <1>5 DEF CommitElsewhere, Delete
  <2> QED
    BY <2>1, <2>2, OutdatingKeepsInv
<1>6. CASE UNCHANGED vars
  <2>1. row' = row /\ writer' = writer /\ stale' = stale /\ agent' = agent /\ clock' = clock
    BY <1>6 DEF vars
  <2>2. told' = told /\ marks' = marks
    BY <1>6 DEF vars
  <2>3. Open' = Open /\ NoTools' = NoTools
    BY <2>1 DEF Open, NoTools
  <2>4. TypeOK'
    BY <2>1, <2>2, <2>3 DEF Inv, TypeOK
  <2> QED
    BY <2>1, <2>3, <2>4 DEF Inv, IsWriters, Current, Alone, Unnamed, Keeps, Busy,
       NoHookRuns, OnlyToolHooksRun
<1> QED
  BY <1>1, <1>2, <1>3, <1>4, <1>5, <1>6 DEF Next

\* Everything Inv says holds in every reachable state.
THEOREM Invariance == Spec => []Inv
<1> QED
  BY InitInv, NextKeepsInv, PTL DEF Spec

\* The types of HookMetadata: what hooks and requests merge is never empty
\* and always well-formed, and only open transactions are outdated.
THEOREM TypeCorrect == Spec => []TypeOK
<1>1. Inv => TypeOK
  BY DEF Inv
<1> QED
  BY <1>1, Invariance, PTL

-----------------------------------------------------------------------------
\* The first title and agent session id stay in the row: an agent reports one
\* prompt or start at a time, and looks at the row before it names.
THEOREM NamesStay == Spec => FirstNameStays
<1>1. Inv /\ [Next]_vars =>
        [row # Nothing /\ row' # Nothing =>
           \A k \in {"title", "agentId"} : row[k] # 0 => row'[k] = row[k]]_vars
  <2> SUFFICES ASSUME Inv, [Next]_vars, row # Nothing, row' # Nothing,
                      NEW k \in {"title", "agentId"}, row[k] # 0
               PROVE  row'[k] = row[k]
    OBVIOUS
  <2>1. CASE \E w \in Writers : Commit(w)
    <3>1. PICK w \in Writers : Commit(w)
      BY <2>1
    <3>2. row' = Merged(writer[w].fields, row)
      BY <3>1, CommitKeepsInv
    <3>3. k \notin DOMAIN writer[w].fields
      BY DEF Inv, Unnamed
    <3> QED
      BY <3>2, <3>3 DEF Merged, Keys
  <2>2. CASE ~ \E w \in Writers : Commit(w)
    <3>1. row' = row \/ row' = Nothing
      BY <2>2 DEF Next, vars, HookStep, RequestStep, StartAgent, SubmitPrompt, StartTool,
         AskUser, EndTool, EndTurn, KillHook, HookReads, Run, Patch, Restart, RestartStamps,
         Begin, Refuse, Interrupt, CommitElsewhere, Delete
    <3> QED
      BY <3>1
  <2> QED
    BY <2>1, <2>2
<1> QED
  BY <1>1, Invariance, PTL DEF Spec, FirstNameStays

-----------------------------------------------------------------------------
PendingFields == [w \in Writers |-> writer[w].fields]

\* The fields a writer has decided on change only when it asks or ends.
LEMMA PendingFollows ==
    ASSUME Inv, Inv', NEW S \in SUBSET Writers,
           \A w \in Writers : writer'[w].fields = IF w \in S THEN Nothing ELSE writer[w].fields,
           row' = row
    PROVE  Store!GiveUp(S)
BY DEF Store!GiveUp, Store!Nothing, Nothing

\* Writer w, which had none, has fields to merge.
LEMMA AskFollows ==
    ASSUME Inv, NEW w \in Writers, NEW f, writer[w].at \notin {"computed", "tx"},
           NEW s, Computes(w, f, s),
           row' = row
    PROVE  Store!Ask(w)
<1>1. writer[w].fields = Nothing
  BY DEF Inv, TypeOK, WriterOK
<1>2. \A v \in Writers \ {w} : writer'[v] = writer[v]
  BY DEF Computes
<1>3. PendingFields' = [PendingFields EXCEPT ![w] = PendingFields'[w]]
  <2> DEFINE p == [v \in Writers |-> writer[v].fields]
             q == [v \in Writers |-> writer'[v].fields]
  <2>1. ASSUME NEW v \in Writers, v # w PROVE q[v] = p[v]
    <3>1. writer'[v].fields = writer[v].fields
      BY <1>2, <2>1
    <3> QED
      BY <2>1, <3>1
  <2>2. p = PendingFields /\ q = PendingFields' /\ DOMAIN p = Writers /\ DOMAIN q = Writers
    BY DEF PendingFields
  <2>3. q = [v \in Writers |-> q[v]] /\ p = [v \in Writers |-> p[v]]
    OBVIOUS
  <2> HIDE DEF p, q
  <2>4. q = [p EXCEPT ![w] = q[w]]
    BY <2>1, <2>2, <2>3
  <2> QED
    BY <2>2, <2>4
<1> QED
  BY <1>1, <1>3 DEF Store!Ask, Store!Nothing, Nothing, PendingFields

\* HookMetadata implements MetadataStore: whatever hooks, requests, refusals
\* and kills interleave, an update reaches the row of its moment whole, or
\* not at all.
THEOREM Implements == Spec => ImplementsStore
<1>1. Init => Store!Init
  <2> SUFFICES ASSUME Init PROVE Store!Init
    OBVIOUS
  <2>1. DOMAIN row = Keys /\ "state" \in Keys
    BY DEF Init, Keys
  <2>2. \A w \in Writers : writer[w].fields = Nothing
    BY DEF Init, Idle
  <2>3. row # Nothing
    BY <2>1 DEF Nothing
  <2> QED
    BY <2>2, <2>3 DEF Store!Init, Store!Nothing, Nothing
<1>2. Inv /\ Inv' /\ [Next]_vars => [Store!Next]_(Store!vars)
  <2> SUFFICES ASSUME Inv, Inv', [Next]_vars PROVE [Store!Next]_(Store!vars)
    OBVIOUS
  <2>0. ASSUME row' = row, NEW S \in SUBSET Writers,
               \A w \in Writers : writer'[w].fields = IF w \in S THEN Nothing ELSE writer[w].fields
        PROVE  Store!Next
    BY <2>0, PendingFollows DEF Store!Next
  <2>1. CASE \E w \in Writers : Commit(w)
    <3>1. PICK w \in Writers : Commit(w)
      BY <2>1
    <3>2. row # Nothing /\ row' = Merged(writer[w].fields, row)
      BY <3>1, CommitKeepsInv
    <3>3. writer[w].fields # Nothing
      BY <3>1, MetadataIsSomething DEF Commit, Inv, TypeOK, WriterOK
    <3>4. \A v \in Writers : writer'[v].fields = IF v = w THEN Nothing ELSE writer[v].fields
      BY <3>1 DEF Commit, Idle, Inv, TypeOK
    <3>5. PendingFields' = [PendingFields EXCEPT ![w] = Nothing]
      BY <3>4 DEF PendingFields
    <3>6. Store!Apply(w)
      BY <3>2, <3>3, <3>5 DEF Store!Apply, Store!Nothing, Store!Merged, Merged, Nothing,
         PendingFields
    <3> QED
      BY <3>6 DEF Store!Next
  <2>2. ASSUME NEW h \in Hooks, HookReads(h), row # Nothing PROVE Store!Next
    <3>1. PICK f : writer' = [writer EXCEPT ![h].at = "computed", ![h].fields = f]
      BY <2>2 DEF HookReads
    <3>2. writer[h].at = "fired" /\ row' = row /\ h \in Writers
      BY <2>2 DEF HookReads, Writers
    <3>3. Computes(h, f, writer[h].saw)
      BY <3>1, <3>2, HookComputes
    <3>4. Store!Ask(h)
      BY <3>2, <3>3, AskFollows
    <3> QED
      BY <3>2, <3>4 DEF Store!Next
  <2>3. ASSUME NEW r \in Requests, NEW parts, Patch(r, parts) PROVE Store!Next
    <3>1. PICK f, s : writer' = [writer EXCEPT ![r].at = "computed", ![r].saw = s,
                                              ![r].fields = f]
      BY <2>3, Zenon DEF Patch
    <3>2. writer[r] = Idle /\ row' = row
      BY <2>3, Zenon DEF Patch
    <3>3. Computes(r, f, s)
      BY <3>1, PatchComputes DEF Writers
    <3>4. Store!Ask(r)
      BY <3>2, <3>3, AskFollows DEF Idle, Writers
    <3> QED
      BY <3>4 DEF Store!Next, Writers
  <2>4. ASSUME NEW r \in Requests, RestartStamps(r) PROVE Store!Next
    <3>1. PICK f : writer' = [writer EXCEPT ![r].at = "computed", ![r].fields = f]
      BY <2>4 DEF RestartStamps
    <3>3. writer[r].at = "fired" /\ row' = row /\ r \in Writers
      BY <2>4 DEF RestartStamps, Writers
    <3>4. Computes(r, f, writer[r].saw)
      BY <3>1, <3>3, HookComputes
    <3>2. Store!Ask(r)
      BY <3>3, <3>4, AskFollows
    <3> QED
      BY <3>2 DEF Store!Next, Writers
  <2>5. ASSUME NEW h \in Hooks, ~HookReads(h) \/ row = Nothing, HookStep(h) PROVE Store!Next
    <3>1. row' = row
      BY <2>5 DEF HookStep, StartAgent, SubmitPrompt, StartTool, AskUser, EndTool, EndTurn,
         KillHook, HookReads, Run
    <3>2. writer' = [writer EXCEPT ![h] = Idle] \/ \E e \in Events : writer' = [writer EXCEPT ![h] = Fired(e)]
      BY <2>5 DEF HookStep, StartAgent, SubmitPrompt, StartTool, AskUser, EndTool, EndTurn,
         KillHook, HookReads, Run, Events, ToolEvents
    <3>3. \A w \in Writers : writer'[w].fields = IF w \in {h} THEN Nothing ELSE writer[w].fields
      BY <3>2 DEF Idle, Fired, Inv, TypeOK
    <3> QED
      BY <2>0, <3>1, <3>3 DEF Writers
  <2>6. ASSUME NEW r \in Requests, NEW started, Restart(r, started) PROVE Store!Next
    <3>1. \A w \in Writers : writer'[w].fields = IF w \in Hooks \union {r} \union (started \intersect Writers) THEN Nothing
                                                 ELSE writer[w].fields
      BY <2>6 DEF Restart, Idle, Fired
    <3>2. Hooks \union {r} \union (started \intersect Writers) \in SUBSET Writers
      BY DEF Writers
    <3>3. row' = row
      BY <2>6 DEF Restart
    <3> QED
      BY <2>0, <3>1, <3>2, <3>3
  <2>7. ASSUME NEW w \in Writers, Begin(w) PROVE [Store!Next]_(Store!vars)
    <3>1. row' = row
      BY <2>7 DEF Begin
    <3>2. CASE row = Nothing
      <4>1. \A v \in Writers : writer'[v].fields = IF v \in {w} THEN Nothing ELSE writer[v].fields
        BY <2>7, <3>2 DEF Begin, Idle, Inv, TypeOK
      <4> QED
        BY <2>0, <3>1, <4>1
    <3>3. CASE row # Nothing
      <4>1. writer' = [writer EXCEPT ![w].at = "tx", ![w].snap = row] /\ WriterOK(writer[w])
        BY <2>7, <3>3 DEF Begin, Inv, TypeOK
      <4>2. \A v \in Writers : writer'[v].fields = writer[v].fields
        BY <4>1 DEF Inv, TypeOK, WriterOK
      <4> QED
        BY <3>1, <4>2 DEF Store!vars
    <3> QED
      BY <3>2, <3>3
  <2>8. ASSUME NEW w \in Writers, Refuse(w) PROVE Store!Next
    <3>1. row' = row /\ \A v \in Writers : writer'[v].fields = IF v \in {w} THEN Nothing ELSE writer[v].fields
      BY <2>8 DEF Refuse, Idle, Inv, TypeOK
    <3> QED
      BY <2>0, <3>1
  <2>9. ASSUME Interrupt PROVE Store!Next
    <3>1. row' = row /\ \A v \in Writers : writer'[v].fields = IF v \in Hooks THEN Nothing ELSE writer[v].fields
      BY <2>9 DEF Interrupt, Idle
    <3> QED
      BY <2>0, <3>1 DEF Writers
  <2>10. ASSUME CommitElsewhere \/ UNCHANGED vars PROVE UNCHANGED Store!vars
    BY <2>10 DEF CommitElsewhere, vars, Store!vars
  <2>11. ASSUME Delete PROVE Store!Next
    BY <2>11 DEF Delete, Store!Next, Store!Delete, Store!Nothing, Nothing
  <2>12. ASSUME NEW r \in Requests, RequestStep(r) PROVE Store!Next
    BY <2>3, <2>4, <2>6, <2>12 DEF RequestStep
  <2>13. ASSUME NEW h \in Hooks, HookStep(h) PROVE Store!Next
    BY <2>2, <2>5, <2>13
  <2> QED
    BY <2>1, <2>7, <2>8, <2>9, <2>10, <2>11, <2>12, <2>13 DEF Next
<1> QED
  BY <1>1, <1>2, Invariance, PTL DEF Spec, ImplementsStore, Store!Spec

-----------------------------------------------------------------------------
\* What a hook under way says of the agent, and what a request can set.
ReportIsTrue(h) ==
    /\ writer[h].event \in ToolEvents \union {"user-prompt-submit"} => agent.busy
    /\ writer[h].event = "stop" => ~agent.busy
    /\ writer[h].event # "session-start" /\ writer[h].fields # Nothing =>
         /\ "state" \in DOMAIN writer[h].fields
         /\ writer[h].fields["state"] \in
              IF writer[h].event = "stop" THEN {"prompt"} ELSE {"working", "triage"}
ReportsAreTrue == \A h \in Hooks : Busy(h) => ReportIsTrue(h)

OnlyDone(r) ==
    /\ writer[r].at = "fired" => writer[r].event = "restart"
    /\ writer[r].event # "restart" /\ "state" \in DOMAIN writer[r].fields =>
         /\ writer[r].fields["state"] = "done"
         /\ writer[r].saw["state"] = "prompt"
RequestsOnlyDone == \A r \in Requests : OnlyDone(r)

Reports == ReportsAreTrue /\ RequestsOnlyDone

LEMMA HookFieldsTell ==
    ASSUME NEW e \in Events \ {"session-start"}, NEW r, NEW f \in HookFields(e, r)
    PROVE  /\ "state" \in DOMAIN f
           /\ f["state"] \in IF e = "stop" THEN {"prompt"} ELSE {"working", "triage"}
<1>1. CASE e = "user-prompt-submit"
  <2>1. f = Activity("working") \/ f = [state |-> "working", active |-> clock, title |-> clock]
    BY <1>1 DEF HookFields, TitleFields
  <2> QED
    BY <1>1, <2>1 DEF Activity
<1>2. CASE e = "stop"
  <2>1. f = [state |-> "prompt", active |-> clock, msg |-> clock]
    BY <1>2 DEF HookFields
  <2> QED
    BY <1>2, <2>1
<1>3. CASE e \in ToolEvents
  <2>1. f = Activity("working") \/ f = Activity("triage")
    BY <1>3 DEF HookFields, ToolEvents
  <2> QED
    BY <1>3, <2>1 DEF Activity, ToolEvents
<1> QED
  BY <1>1, <1>2, <1>3 DEF Events

\* Reports are kept by steps that start hook h, with nobody else to contradict.
LEMMA RunKeepsReports ==
    ASSUME Inv, Reports, NEW h \in Hooks, NEW e \in Events, Run(h, e),
           e \in ToolEvents \union {"user-prompt-submit"} => agent'.busy,
           e = "stop" => ~agent'.busy,
           NoHookRuns \/ (agent.busy /\ agent'.busy) \/ agent' = agent
    PROVE  Reports'
<1>1. /\ writer' = [writer EXCEPT ![h] = Fired(e)]
      /\ \A w \in Writers \ {h} : writer'[w] = writer[w]
      /\ writer'[h] = Fired(e)
  BY DEF Run, Inv, TypeOK, Writers
<1>2. Fired(e).fields = Nothing /\ Fired(e).event = e
  BY DEF Fired
<1>3. ReportsAreTrue'
  <2> SUFFICES ASSUME NEW g \in Hooks, Busy(g)' PROVE ReportIsTrue(g)'
    BY DEF ReportsAreTrue
  <2>1. CASE g = h
    BY <1>1, <1>2, <2>1 DEF ReportIsTrue
  <2>2. CASE g # h
    <3>1. writer'[g] = writer[g] /\ Busy(g)
      BY <1>1, <2>2 DEF Writers, Busy
    <3>2. ReportIsTrue(g) /\ ((agent.busy /\ agent'.busy) \/ agent' = agent)
      BY <3>1 DEF Reports, ReportsAreTrue, NoHookRuns
    <3>3. CASE agent' = agent
      BY <3>1, <3>2, <3>3 DEF ReportIsTrue
    <3>4. CASE agent.busy /\ agent'.busy
      BY <3>1, <3>2, <3>4 DEF ReportIsTrue
    <3> QED
      BY <3>2, <3>3, <3>4
  <2> QED
    BY <2>1, <2>2
<1>4. RequestsOnlyDone'
  BY <1>1, Distinct DEF Reports, RequestsOnlyDone, OnlyDone, Writers
<1> QED
  BY <1>3, <1>4 DEF Reports

\* Reports are kept when writers only end, whatever the agent does then, as
\* long as no hook is left to contradict it.
LEMMA EndsKeepReports ==
    ASSUME Inv, Reports, \A w \in Writers : writer'[w] \in {writer[w], Idle},
           agent' = agent \/ \A h \in Hooks : writer'[h] = Idle
    PROVE  Reports'
<1>1. Idle.fields = Nothing /\ Idle.at = "idle" /\ DOMAIN Nothing = {}
  BY DEF Idle, Nothing
<1>2. ReportsAreTrue'
  <2> SUFFICES ASSUME NEW g \in Hooks, Busy(g)' PROVE ReportIsTrue(g)'
    BY DEF ReportsAreTrue
  <2>1. writer'[g] = writer[g] /\ Busy(g) /\ agent' = agent
    BY <1>1 DEF Busy, Writers
  <2> QED
    BY <2>1 DEF Reports, ReportsAreTrue, ReportIsTrue
<1>3. RequestsOnlyDone'
  <2> SUFFICES ASSUME NEW r \in Requests PROVE OnlyDone(r)'
    BY DEF RequestsOnlyDone
  <2>1. writer'[r] = writer[r] \/ writer'[r] = Idle
    BY DEF Writers
  <2>2. OnlyDone(r)
    BY DEF Reports, RequestsOnlyDone
  <2> QED
    BY <1>1, <2>1, <2>2 DEF OnlyDone
<1> QED
  BY <1>2, <1>3 DEF Reports

LEMMA HookStepKeepsReports ==
    ASSUME Inv, Reports, NEW h \in Hooks, HookStep(h) PROVE Reports'
<1>0. /\ agent \in [busy : BOOLEAN, tool : [Hooks -> {"none", "running", "asking"}]]
      /\ ~agent.busy => agent.tool = NoTools
  BY DEF Inv, TypeOK
<1>1. ASSUME StartAgent(h) PROVE Reports'
  BY <1>1, RunKeepsReports DEF StartAgent, Events, ToolEvents
<1>2. ASSUME SubmitPrompt(h) PROVE Reports'
  <2>1. NoHookRuns /\ agent' = [agent EXCEPT !.busy = TRUE] /\ Run(h, "user-prompt-submit")
    BY <1>2 DEF SubmitPrompt
  <2>2. agent'.busy
    BY <1>0, <2>1
  <2> QED
    BY <2>1, <2>2, RunKeepsReports DEF Events
<1>3. ASSUME StartTool(h) \/ AskUser(h) \/ EndTool(h) PROVE Reports'
  <2>1. PICK e \in ToolEvents : Run(h, e)
    BY <1>3 DEF StartTool, AskUser, EndTool, ToolEvents
  <2>2. agent.busy
    <3>1. agent.busy \/ agent.tool[h] # "none"
      BY <1>3 DEF StartTool, AskUser, EndTool
    <3> QED
      BY <1>0, <3>1 DEF NoTools
  <2>3. PICK s \in {"none", "running", "asking"} : agent' = [agent EXCEPT !.tool[h] = s]
    BY <1>3 DEF StartTool, AskUser, EndTool
  <2>4. agent'.busy
    BY <1>0, <2>2, <2>3
  <2>5. e \in Events /\ e # "stop"
    BY DEF Events, ToolEvents
  <2> QED
    BY <2>1, <2>2, <2>4, <2>5, RunKeepsReports
<1>4. ASSUME EndTurn(h) PROVE Reports'
  <2>1. NoHookRuns /\ agent' = [agent EXCEPT !.busy = FALSE] /\ Run(h, "stop")
    BY <1>4 DEF EndTurn
  <2>2. ~agent'.busy
    BY <1>0, <2>1
  <2> QED
    BY <2>1, <2>2, RunKeepsReports DEF Events, ToolEvents
<1>5. ASSUME KillHook(h) \/ (HookReads(h) /\ row = Nothing) PROVE Reports'
  <2>1. writer' = [writer EXCEPT ![h] = Idle] /\ agent' = agent
    BY <1>5 DEF KillHook, HookReads
  <2>2. \A w \in Writers : writer'[w] \in {writer[w], Idle}
    BY <2>1 DEF Inv, TypeOK
  <2> QED
    BY <2>1, <2>2, EndsKeepReports
<1>6. ASSUME HookReads(h), row # Nothing PROVE Reports'
  <2>1. PICK f \in HookFields(writer[h].event, row) :
          writer' = [writer EXCEPT ![h].at = "computed", ![h].fields = f]
    BY <1>6 DEF HookReads
  <2>2. writer[h].event \in Events /\ Busy(h) /\ WriterOK(writer[h]) /\ agent' = agent
    BY <1>6 DEF HookReads, Inv, TypeOK, Alone, Busy, Writers
  <2>3. /\ \A w \in Writers \ {h} : writer'[w] = writer[w]
        /\ writer'[h].event = writer[h].event /\ writer'[h].fields = f
    BY <2>1, <2>2 DEF Inv, TypeOK, WriterOK, Writers
  <2>4. ReportIsTrue(h)'
    BY <2>2, <2>3, HookFieldsTell DEF Reports, ReportsAreTrue, ReportIsTrue
  <2>5. ReportsAreTrue'
    BY <2>2, <2>3, <2>4 DEF Reports, ReportsAreTrue, ReportIsTrue, Busy, Writers
  <2>6. RequestsOnlyDone'
    BY <2>3, Distinct DEF Reports, RequestsOnlyDone, OnlyDone, Writers
  <2> QED
    BY <2>5, <2>6 DEF Reports
<1> QED
  BY <1>1, <1>2, <1>3, <1>4, <1>5, <1>6 DEF HookStep

LEMMA RequestStepKeepsReports ==
    ASSUME Inv, Reports, NEW r \in Requests, RequestStep(r) PROVE Reports'
<1>0. r \in Writers /\ r \notin Hooks
  BY Distinct DEF Writers
<1>1. ASSUME NEW parts \in (SUBSET {"name", "seen", "state"}) \ {{}}, Patch(r, parts)
      PROVE  Reports'
  <2> DEFINE f == [k \in parts |-> CASE k = "name" -> 1
                                     [] k = "seen" -> DeliveredAt(row)
                                     [] k = "state" -> "done"]
  <2> DEFINE s == IF parts = {"name"} THEN Nothing ELSE row
  <2>1. writer' = [writer EXCEPT ![r].at = "computed", ![r].saw = s, ![r].fields = f]
    BY <1>1, Zenon DEF Patch
  <2>2. DOMAIN f = parts
    BY Zenon
  <2>3. "state" \in DOMAIN f => f["state"] = "done" /\ s["state"] = "prompt"
    <3> SUFFICES ASSUME "state" \in parts PROVE f["state"] = "done" /\ s["state"] = "prompt"
      BY <2>2
    <3>1. row["state"] = "prompt"
      BY <1>1, Zenon DEF Patch
    <3>2. parts # {"name"}
      OBVIOUS
    <3> QED
      BY <3>1, <3>2
  <2> HIDE DEF f, s
  <2>8. agent' = agent
    BY <1>1, Zenon DEF Patch
  <2>4. /\ writer'[r].fields = f /\ writer'[r].saw = s /\ writer'[r].at = "computed"
        /\ \A w \in Writers \ {r} : writer'[w] = writer[w]
    <3>1. Computes(r, f, s)
      BY <1>0, <2>1, PatchComputes
    <3> QED
      BY <1>0, <3>1 DEF Computes
  <2>5. ReportsAreTrue'
    BY <1>0, <2>4, <2>8 DEF Reports, ReportsAreTrue, ReportIsTrue, Busy, Writers
  <2>6. RequestsOnlyDone'
    BY <2>3, <2>4 DEF Reports, RequestsOnlyDone, OnlyDone, Writers
  <2> QED
    BY <2>5, <2>6 DEF Reports
<1>2. ASSUME NEW started \in {{}} \union {{h} : h \in Hooks}, Restart(r, started) PROVE Reports'
  <2>1. /\ \A w \in Writers : writer'[w] = IF w = r THEN Fired("restart")
                                           ELSE IF w \in started THEN Fired("session-start")
                                           ELSE IF w \in Hooks THEN Idle ELSE writer[w]
        /\ started \subseteq Hooks
    BY <1>2 DEF Restart
  <2>2. /\ Idle.at = "idle" /\ Fired("session-start").event = "session-start"
        /\ Fired("restart").event = "restart" /\ Fired("session-start").fields = Nothing
    BY DEF Idle, Fired
  <2>3. ReportsAreTrue'
    BY <1>0, <2>1, <2>2 DEF ReportsAreTrue, ReportIsTrue, Busy, Writers, ToolEvents
  <2>4. RequestsOnlyDone'
    BY <2>1, <2>2, Distinct DEF Reports, RequestsOnlyDone, OnlyDone, Writers
  <2> QED
    BY <2>3, <2>4 DEF Reports
<1>3. ASSUME RestartStamps(r) PROVE Reports'
  <2>1. writer[r].event = "restart" /\ WriterOK(writer[r]) /\ agent' = agent
    BY <1>0, <1>3 DEF RestartStamps, Reports, RequestsOnlyDone, OnlyDone, Inv, TypeOK
  <2>2. writer' = [writer EXCEPT ![r].at = "computed", ![r].fields = Activity("prompt")]
    BY <1>3 DEF RestartStamps
  <2>3. /\ writer'[r].event = "restart" /\ writer'[r].at = "computed"
        /\ \A w \in Writers \ {r} : writer'[w] = writer[w]
    BY <1>0, <2>1, <2>2 DEF Inv, TypeOK, WriterOK
  <2>4. ReportsAreTrue'
    BY <1>0, <2>1, <2>3 DEF Reports, ReportsAreTrue, ReportIsTrue, Busy, Writers
  <2>5. RequestsOnlyDone'
    BY <2>3 DEF Reports, RequestsOnlyDone, OnlyDone, Writers
  <2> QED
    BY <2>4, <2>5 DEF Reports
<1> QED
  BY <1>1, <1>2, <1>3 DEF RequestStep

LEMMA BeginKeepsReports ==
    ASSUME Inv, Reports, NEW w \in Writers, Begin(w) PROVE Reports'
<1>1. agent' = agent /\ WriterOK(writer[w])
  BY DEF Begin, Inv, TypeOK
<1>2. CASE row = Nothing
  <2>1. writer' = [writer EXCEPT ![w] = Idle]
    BY <1>2 DEF Begin
  <2>2. \A v \in Writers : writer'[v] \in {writer[v], Idle}
    BY <2>1 DEF Inv, TypeOK
  <2> QED
    BY <1>1, <2>2, EndsKeepReports
<1>3. CASE row # Nothing
  <2>1. writer' = [writer EXCEPT ![w].at = "tx", ![w].snap = row] /\ writer[w].at = "computed"
    BY <1>3 DEF Begin
  <2>2. /\ writer'[w].at = "tx" /\ writer'[w].event = writer[w].event
        /\ writer'[w].fields = writer[w].fields /\ writer'[w].saw = writer[w].saw
        /\ \A v \in Writers \ {w} : writer'[v] = writer[v]
    BY <1>1, <2>1 DEF Inv, TypeOK, WriterOK
  <2>3. ReportsAreTrue'
    <3> SUFFICES ASSUME NEW g \in Hooks, Busy(g)' PROVE ReportIsTrue(g)'
      BY DEF ReportsAreTrue
    <3>1. Busy(g) /\ writer'[g].event = writer[g].event /\ writer'[g].fields = writer[g].fields
      BY <2>1, <2>2 DEF Busy, Writers
    <3>2. ReportIsTrue(g)
      BY <3>1 DEF Reports, ReportsAreTrue
    <3> QED
      BY <1>1, <3>1, <3>2 DEF ReportIsTrue
  <2>4. RequestsOnlyDone'
    BY <2>2 DEF Reports, RequestsOnlyDone, OnlyDone, Writers
  <2> QED
    BY <2>3, <2>4 DEF Reports
<1> QED
  BY <1>2, <1>3

LEMMA NextKeepsReports == Inv /\ Reports /\ [Next]_vars => Reports'
<1> SUFFICES ASSUME Inv, Reports, [Next]_vars PROVE Reports'
  OBVIOUS
<1>1. CASE \E w \in Writers : Commit(w) \/ Refuse(w)
  <2>1. PICK w \in Writers : Commit(w) \/ Refuse(w)
    BY <1>1
  <2>2. writer' = [writer EXCEPT ![w] = Idle] /\ agent' = agent
    BY <2>1 DEF Commit, Refuse
  <2>3. \A v \in Writers : writer'[v] \in {writer[v], Idle}
    BY <2>2 DEF Inv, TypeOK
  <2> QED
    BY <2>2, <2>3, EndsKeepReports
<1>2. CASE Interrupt
  <2>1. \A v \in Writers : writer'[v] = IF v \in Hooks THEN Idle ELSE writer[v]
    BY <1>2 DEF Interrupt
  <2> QED
    BY <2>1, EndsKeepReports DEF Writers
<1>3. CASE CommitElsewhere \/ Delete \/ UNCHANGED vars
  <2>1. writer' = writer /\ agent' = agent
    BY <1>3 DEF CommitElsewhere, Delete, vars
  <2> QED
    BY <2>1, EndsKeepReports
<1> QED
  BY <1>1, <1>2, <1>3, HookStepKeepsReports, RequestStepKeepsReports, BeginKeepsReports DEF Next

\* What a told row says of a turn under way and of an agent that waits.
Told(r, m) ==
    r["state"] \in IF agent.busy
                    THEN {"working", "triage"} \union (IF m.late THEN {"done"} ELSE {})
                    ELSE {"prompt", "done"}

\* The status holds after a commit: it is what the hook reported, or a request
\* marks a session done that waits, or that waited when the request read it.
LEMMA CommitKeepsStatus ==
    ASSUME Inv, Reports, StatusIsTrue, NEW w \in Writers, Commit(w) PROVE StatusIsTrue'
<1> DEFINE f == writer[w].fields
<1>0. agent' = agent /\ Note(w)
  BY DEF Commit
<1> SUFFICES ASSUME told', NoHookRuns' PROVE Told(row', marks')
  BY <1>0 DEF StatusIsTrue, Told
<1>1. /\ row # Nothing /\ row' = Merged(f, row)
      /\ writer[w].at = "tx" /\ writer' = [writer EXCEPT ![w] = Idle]
      /\ f # Nothing
  BY CommitKeepsInv, MetadataIsSomething DEF Commit, Inv, TypeOK, WriterOK
<1>2. row'["state"] = IF "state" \in DOMAIN f THEN f["state"] ELSE row["state"]
  BY <1>1 DEF Merged, Keys
<1>3. CASE w \in Hooks
  <2>1. told' = (writer[w].event # "session-start")
    BY <1>0, <1>3, Zenon DEF Note
  <2>2. writer[w].event \in Events \ {"session-start"} /\ Busy(w) /\ ReportIsTrue(w)
    BY <1>1, <1>3, <2>1 DEF Busy, Inv, Alone, Reports, ReportsAreTrue
  <2>3. IF agent.busy THEN row'["state"] \in {"working", "triage"} ELSE row'["state"] = "prompt"
    BY <1>1, <1>2, <2>2 DEF ReportIsTrue, Events
  <2> QED
    BY <2>3 DEF Told
<1>4. CASE w \in Requests
  <2>1. told /\ writer[w].event # "restart"
    <3>1. told' = (told /\ writer[w].event # "restart")
      BY <1>0, <1>4, Distinct, Zenon DEF Note
    <3> QED
      BY <3>1
  <2>2. \A h \in Hooks : ~Busy(h)
    BY <1>1, <1>4, Distinct DEF NoHookRuns, Busy, Inv, TypeOK, Writers
  <2>3. Told(row, marks)
    BY <1>1, <2>1, <2>2 DEF StatusIsTrue, NoHookRuns, Told
  <2>4. CASE "state" \in DOMAIN f
    <3>1. f["state"] = "done" /\ writer[w].saw["state"] = "prompt"
      BY <1>4, <2>1, <2>4 DEF Reports, RequestsOnlyDone, OnlyDone
    <3>2. marks'.late = (row["state"] # "prompt")
      <4>1. marks'.late = (/\ f["state"] = "done"
                           /\ writer[w].saw["state"] = "prompt"
                           /\ row["state"] # "prompt")
        BY <1>0, <2>4, Zenon DEF Note
      <4> QED
        BY <3>1, <4>1
    <3>3. agent.busy => row["state"] # "prompt"
      BY <2>3 DEF Told
    <3> QED
      BY <1>2, <2>4, <3>1, <3>2, <3>3 DEF Told
  <2>5. CASE "state" \notin DOMAIN f
    <3>1. marks'.late = marks.late
      BY <1>0, <2>5, Zenon DEF Note
    <3> QED
      BY <1>2, <2>3, <2>5, <3>1 DEF Told
  <2> QED
    BY <2>4, <2>5
<1> QED
  BY <1>3, <1>4 DEF Writers

\* No other step leaves a told status behind with another agent or row.
LEMMA OthersKeepStatus ==
    ASSUME Inv, StatusIsTrue, [Next]_vars, \A w \in Writers : ~Commit(w) PROVE StatusIsTrue'
<1>1. CASE \E h \in Hooks : HookStep(h)
  <2>1. PICK h \in Hooks : HookStep(h)
    BY <1>1
  <2>2. ASSUME NEW e, Run(h, e) PROVE ~NoHookRuns'
    BY <2>2 DEF Run, Fired, NoHookRuns, Busy, Inv, TypeOK, Writers
  <2>3. ASSUME HookReads(h), row # Nothing PROVE ~NoHookRuns'
    <3>1. PICK f : writer' = [writer EXCEPT ![h].at = "computed", ![h].fields = f]
      BY <2>3 DEF HookReads
    <3>2. WriterOK(writer[h]) /\ h \in DOMAIN writer
      BY DEF Inv, TypeOK, Writers
    <3>3. writer'[h].at = "computed"
      BY <3>1, <3>2 DEF WriterOK
    <3> QED
      BY <3>3 DEF NoHookRuns, Busy
  <2>4. ASSUME HookReads(h), row = Nothing PROVE StatusIsTrue'
    BY <2>4 DEF HookReads, StatusIsTrue
  <2>5. ASSUME KillHook(h) PROVE StatusIsTrue'
    BY <2>5 DEF KillHook, StatusIsTrue
  <2>6. ~NoHookRuns' => StatusIsTrue'
    BY DEF StatusIsTrue
  <2> QED
    BY <2>1, <2>2, <2>3, <2>4, <2>5, <2>6 DEF HookStep, StartAgent, SubmitPrompt, StartTool,
       AskUser, EndTool, EndTurn
<1>2. ASSUME row' = row, agent' = agent, marks' = marks, told' => told,
             NoHookRuns' => NoHookRuns
      PROVE  StatusIsTrue'
  BY <1>2 DEF StatusIsTrue
<1>3. CASE \E r \in Requests : RequestStep(r)
  <2>1. PICK r \in Requests : RequestStep(r)
    BY <1>3
  <2>2. ASSUME NEW started, Restart(r, started) PROVE StatusIsTrue'
    BY <2>2 DEF Restart, StatusIsTrue
  <2>3. ASSUME NEW parts, Patch(r, parts) PROVE StatusIsTrue'
    <3>1. row' = row /\ agent' = agent /\ marks' = marks
      BY <2>3, Zenon DEF Patch
    <3>2. told' = told
      BY <2>3, Zenon DEF Patch
    <3>3. PICK f, s : writer' = [writer EXCEPT ![r].at = "computed", ![r].saw = s,
                                              ![r].fields = f]
      BY <2>3, Zenon DEF Patch
    <3>4. NoHookRuns' => NoHookRuns
      BY <3>3, Distinct DEF NoHookRuns, Busy, Inv, TypeOK, Writers
    <3> QED
      BY <1>2, <3>1, <3>2, <3>4
  <2>4. ASSUME RestartStamps(r) PROVE StatusIsTrue'
    <3>1. row' = row /\ agent' = agent /\ marks' = marks
      BY <2>4 DEF RestartStamps
    <3>2. told' = told
      BY <2>4 DEF RestartStamps
    <3>3. PICK f : writer' = [writer EXCEPT ![r].at = "computed", ![r].fields = f]
      BY <2>4 DEF RestartStamps
    <3>4. NoHookRuns' => NoHookRuns
      BY <3>3, Distinct DEF NoHookRuns, Busy, Inv, TypeOK, Writers
    <3> QED
      BY <1>2, <3>1, <3>2, <3>4
  <2> QED
    BY <2>1, <2>2, <2>3, <2>4 DEF RequestStep
<1>4. ASSUME NEW w \in Writers, Begin(w) PROVE StatusIsTrue'
  <2>1. row' = row /\ agent' = agent /\ marks' = marks
    BY <1>4 DEF Begin
  <2>2. told' = told
    BY <1>4 DEF Begin
  <2>3. CASE row = Nothing
    BY <2>1, <2>3 DEF StatusIsTrue
  <2>4. CASE row # Nothing
    <3>1. WriterOK(writer[w]) /\ DOMAIN writer = Writers
      BY DEF Inv, TypeOK
    <3>2. writer' = [writer EXCEPT ![w].at = "tx", ![w].snap = row] /\ writer[w].at = "computed"
      BY <1>4, <2>4 DEF Begin
    <3>3. \A h \in Hooks : writer'[h].at = "idle" => writer[h].at = "idle"
      BY <3>1, <3>2 DEF WriterOK, Writers
    <3>4. NoHookRuns' => NoHookRuns
      BY <3>3 DEF NoHookRuns, Busy
    <3> QED
      BY <1>2, <2>1, <2>2, <3>4
  <2> QED
    BY <2>3, <2>4
<1>5. ASSUME NEW w \in Writers, Refuse(w) PROVE StatusIsTrue'
  <2>1. row' = row /\ agent' = agent /\ marks' = marks /\ writer' = [writer EXCEPT ![w] = Idle]
    BY <1>5 DEF Refuse
  <2>2. told' = (told /\ w \in Requests)
    BY <1>5 DEF Refuse
  <2>3. CASE w \in Hooks
    <3>1. ~told'
      BY <2>2, <2>3, Distinct
    <3> QED
      BY <3>1 DEF StatusIsTrue
  <2>4. CASE w \in Requests
    <3>1. NoHookRuns' => NoHookRuns
      BY <2>1, <2>4, Distinct DEF NoHookRuns, Busy, Inv, TypeOK, Writers
    <3> QED
      BY <1>2, <2>1, <2>2, <3>1
  <2> QED
    BY <2>3, <2>4 DEF Writers
<1>6. ASSUME Interrupt PROVE StatusIsTrue'
  BY <1>6 DEF Interrupt, StatusIsTrue
<1>7. ASSUME Delete PROVE StatusIsTrue'
  BY <1>7 DEF Delete, StatusIsTrue
<1>8. ASSUME CommitElsewhere \/ UNCHANGED vars PROVE StatusIsTrue'
  <2>1. row' = row /\ agent' = agent /\ marks' = marks /\ writer' = writer
    BY <1>8 DEF CommitElsewhere, vars
  <2>2. told' = told
    BY <1>8 DEF CommitElsewhere, vars
  <2>3. NoHookRuns' => NoHookRuns
    BY <2>1 DEF NoHookRuns, Busy
  <2> QED
    BY <1>2, <2>1, <2>2, <2>3
<1> QED
  BY <1>1, <1>3, <1>4, <1>5, <1>6, <1>7, <1>8 DEF Next

\* Once the agent's last change is reported, the row says whether it waits for
\* the user, however hooks, requests and restarts overlapped; done over a turn
\* is left by a request only that read the row before the turn was reported.
THEOREM StatusStaysTrue == Spec => []StatusIsTrue
<1>1. Init => Reports /\ StatusIsTrue
  <2> SUFFICES ASSUME Init PROVE Reports /\ StatusIsTrue
    OBVIOUS
  <2>1. \A w \in Writers : writer[w].at = "idle" /\ DOMAIN writer[w].fields = {}
    BY DEF Init, Idle, Nothing
  <2>2. Reports
    BY <2>1 DEF Reports, ReportsAreTrue, RequestsOnlyDone, OnlyDone, Busy, Writers
  <2>3. ~told
    BY DEF Init
  <2> QED
    BY <2>2, <2>3 DEF StatusIsTrue
<1>2. Inv /\ Reports /\ StatusIsTrue /\ [Next]_vars => Reports' /\ StatusIsTrue'
  BY NextKeepsReports, CommitKeepsStatus, OthersKeepStatus
<1> QED
  BY <1>1, <1>2, Invariance, PTL DEF Spec

-----------------------------------------------------------------------------
\* Times are of events that happened: in the row and in what is to be merged.
Elapsed ==
    /\ row # Nothing => \A k \in {"active", "msg", "seen"} : row[k] <= clock
    /\ \A w \in Writers : \A k \in {"active", "msg", "seen"} \intersect DOMAIN writer[w].fields :
           writer[w].fields[k] <= clock

\* Nothing happens to the agent while it waits for the hook that delivers a
\* response: a response about to be merged is the newest event there is.
StopIsNow ==
    \A w \in Writers : "msg" \in DOMAIN writer[w].fields =>
        w \in Hooks /\ writer[w].event = "stop" /\ writer[w].fields["msg"] = clock

\* A request that has read a response marks that one, and the row's is no older.
MarkOfResponse ==
    \A w \in Writers :
        "seen" \in DOMAIN writer[w].fields /\ writer[w].saw["msg"] # 0 =>
            /\ writer[w].fields["seen"] = writer[w].saw["msg"]
            /\ row # Nothing => writer[w].fields["seen"] <= row["msg"]

\* So the row's mark is of the response that the marking request had read.
RowMark ==
    row # Nothing /\ marks.read # 0 =>
        row["seen"] = marks.read /\ row["seen"] <= row["msg"]

SeenInv == Elapsed /\ StopIsNow /\ MarkOfResponse /\ RowMark

LEMMA NothingIsEmpty == DOMAIN Nothing = {}
BY DEF Nothing

\* The row's times, and what a writer is about to merge, are natural numbers.
LEMMA TimesAreNatural ==
    ASSUME Inv
    PROVE  /\ clock \in Nat
           /\ row # Nothing => \A k \in {"active", "msg", "seen"} : row[k] \in Nat
           /\ \A w \in Writers :
                \A k \in {"active", "msg", "seen"} \intersect DOMAIN writer[w].fields :
                    writer[w].fields[k] \in Nat
<1>1. clock \in Nat /\ Times \subseteq Nat
  BY Bounds DEF Inv, TypeOK, Times
<1>2. row # Nothing => \A k \in {"active", "msg", "seen"} : row[k] \in Nat
  BY <1>1 DEF Inv, TypeOK, Metadata, Keys
<1>3. ASSUME NEW w \in Writers,
             NEW k \in {"active", "msg", "seen"} \intersect DOMAIN writer[w].fields
      PROVE  writer[w].fields[k] \in Nat
  <2>1. Metadata(writer[w].fields)
    BY <1>3, NothingIsEmpty DEF Inv, TypeOK, WriterOK
  <2> QED
    BY <1>1, <1>3, <2>1 DEF Metadata
<1> QED
  BY <1>1, <1>2, <1>3

\* Writers keep what they are about to merge or drop it, and the agent goes on
\* only when no response is about to be merged.
LEMMA KeptFieldsKeepSeen ==
    ASSUME Inv, SeenInv, row' \in {row, Nothing}, clock' \in {clock, clock + 1},
           \A w \in Writers : \/ DOMAIN writer'[w].fields = {}
                              \/ /\ writer'[w].fields = writer[w].fields
                                 /\ writer'[w].event = writer[w].event
                                 /\ writer'[w].saw = writer[w].saw,
           marks' = marks,
           clock' # clock =>
               \A w \in Writers : "msg" \notin DOMAIN writer'[w].fields
    PROVE  SeenInv'
<1>1. clock \in Nat /\ clock <= clock'
  BY TimesAreNatural
<1>2. Elapsed'
  <2>1. row' # Nothing => \A k \in {"active", "msg", "seen"} : row'[k] <= clock'
    BY <1>1, TimesAreNatural DEF SeenInv, Elapsed
  <2>2. ASSUME NEW w \in Writers,
               NEW k \in {"active", "msg", "seen"} \intersect DOMAIN writer'[w].fields
        PROVE  writer'[w].fields[k] <= clock'
    <3>1. writer'[w].fields = writer[w].fields
      BY <2>2
    <3>2. writer[w].fields[k] <= clock /\ writer[w].fields[k] \in Nat
      BY <2>2, <3>1, TimesAreNatural DEF SeenInv, Elapsed
    <3> QED
      BY <1>1, <3>1, <3>2
  <2> QED
    BY <2>1, <2>2 DEF Elapsed
<1>3. StopIsNow'
  BY DEF SeenInv, StopIsNow
<1>4. MarkOfResponse' /\ RowMark'
  BY DEF SeenInv, MarkOfResponse, RowMark
<1> QED
  BY <1>2, <1>3, <1>4 DEF SeenInv

\* What a hook computes is stamped with the clock, a response only at a stop.
LEMMA HookFieldsAreNow ==
    ASSUME NEW e \in Events, NEW r, NEW f \in HookFields(e, r)
    PROVE  /\ \A k \in {"active", "msg"} \intersect DOMAIN f : f[k] = clock
           /\ "seen" \notin DOMAIN f
           /\ "msg" \in DOMAIN f => e = "stop"
<1>1. CASE \E s : f = Activity(s)
  BY <1>1 DEF Activity
<1>2. CASE f = [state |-> "working", active |-> clock, agentId |-> clock]
  <2>1. DOMAIN f = {"state", "active", "agentId"} /\ f["active"] = clock
    BY <1>2
  <2> QED
    BY <2>1
<1>3. CASE f = [state |-> "working", active |-> clock, title |-> clock]
  <2>1. DOMAIN f = {"state", "active", "title"} /\ f["active"] = clock
    BY <1>3
  <2> QED
    BY <2>1
<1>4. CASE e = "stop" /\ f = [state |-> "prompt", active |-> clock, msg |-> clock]
  <2>1. DOMAIN f = {"state", "active", "msg"} /\ f["active"] = clock /\ f["msg"] = clock
    BY <1>4
  <2> QED
    BY <1>4, <2>1
<1>5. \/ \E s : f = Activity(s)
      \/ f = [state |-> "working", active |-> clock, agentId |-> clock]
      \/ f = [state |-> "working", active |-> clock, title |-> clock]
      \/ e = "stop" /\ f = [state |-> "prompt", active |-> clock, msg |-> clock]
  <2>1. CASE e = "session-start"
    BY <2>1 DEF HookFields
  <2>2. CASE e = "user-prompt-submit"
    BY <2>2 DEF HookFields, TitleFields
  <2>3. CASE e = "stop"
    BY <2>3 DEF HookFields
  <2>4. CASE e \in ToolEvents
    BY <2>4 DEF HookFields, ToolEvents
  <2> QED
    BY <2>1, <2>2, <2>3, <2>4 DEF Events
<1> QED
  BY <1>1, <1>2, <1>3, <1>4, <1>5

\* Writer w has decided on fields of now, the responses the row has seen
\* delivered among them.
LEMMA ComputedKeepsSeen ==
    ASSUME Inv, SeenInv, NEW w \in Writers, NEW f,
           NEW s, Computes(w, f, s),
           row' = row, clock' = clock, marks' = marks,
           \A k \in {"active", "msg"} \intersect DOMAIN f : f[k] = clock,
           "msg" \in DOMAIN f => w \in Hooks /\ writer[w].event = "stop",
           "seen" \in DOMAIN f => f["seen"] <= clock,
           "seen" \in DOMAIN f /\ s["msg"] # 0 => f["seen"] = s["msg"],
           "seen" \in DOMAIN f /\ s["msg"] # 0 /\ row # Nothing => f["seen"] <= row["msg"]
    PROVE  SeenInv'
<1>1. /\ \A v \in Writers \ {w} : writer'[v] = writer[v]
      /\ writer'[w].event = writer[w].event /\ writer'[w].fields = f
      /\ writer'[w].saw = s
  BY DEF Computes
<1>2. clock \in Nat
  BY TimesAreNatural
<1>3. Elapsed'
  <2>1. row' # Nothing => \A k \in {"active", "msg", "seen"} : row'[k] <= clock'
    BY DEF SeenInv, Elapsed
  <2>2. ASSUME NEW v \in Writers,
               NEW k \in {"active", "msg", "seen"} \intersect DOMAIN writer'[v].fields
        PROVE  writer'[v].fields[k] <= clock'
    <3>1. CASE v # w
      <4>1. writer'[v].fields = writer[v].fields
        BY <1>1, <3>1
      <4>2. writer[v].fields[k] <= clock
        BY <2>2, <4>1 DEF SeenInv, Elapsed
      <4> QED
        BY <4>1, <4>2
    <3>2. CASE v = w
      <4>1. f[k] = clock \/ (k = "seen" /\ f[k] <= clock)
        BY <1>1, <2>2, <3>2
      <4> QED
        BY <1>1, <1>2, <3>2, <4>1
    <3> QED
      BY <3>1, <3>2
  <2> QED
    BY <2>1, <2>2 DEF Elapsed
<1>4. StopIsNow'
  <2> SUFFICES ASSUME NEW v \in Writers, "msg" \in DOMAIN writer'[v].fields
               PROVE  v \in Hooks /\ writer'[v].event = "stop" /\ writer'[v].fields["msg"] = clock
    BY DEF StopIsNow
  <2>1. CASE v # w
    BY <1>1, <2>1 DEF SeenInv, StopIsNow
  <2>2. CASE v = w
    BY <1>1, <2>2
  <2> QED
    BY <2>1, <2>2
<1>5. MarkOfResponse'
  <2> SUFFICES ASSUME NEW v \in Writers,
                      "seen" \in DOMAIN writer'[v].fields, writer'[v].saw["msg"] # 0
               PROVE  /\ writer'[v].fields["seen"] = writer'[v].saw["msg"]
                      /\ row' # Nothing => writer'[v].fields["seen"] <= row'["msg"]
    BY DEF MarkOfResponse
  <2>1. CASE v # w
    <3>1. writer'[v] = writer[v]
      BY <1>1, <2>1
    <3> QED
      BY <3>1 DEF SeenInv, MarkOfResponse
  <2>2. CASE v = w
    <3>1. "seen" \in DOMAIN f /\ s["msg"] # 0
      BY <1>1, <2>2
    <3>2. f["seen"] = s["msg"] /\ (row # Nothing => f["seen"] <= row["msg"])
      BY <3>1
    <3>3. writer'[v].fields["seen"] = f["seen"] /\ writer'[v].saw["msg"] = s["msg"]
      BY <1>1, <2>2
    <3> QED
      BY <3>2, <3>3
  <2> QED
    BY <2>1, <2>2
<1>6. RowMark'
  BY DEF SeenInv, RowMark
<1> QED
  BY <1>3, <1>4, <1>5, <1>6 DEF SeenInv

\* The agent starts a hook only when no hook delivers a response.
LEMMA RunKeepsSeen ==
    ASSUME Inv, SeenInv, NEW h \in Hooks, NEW e, Run(h, e), NoHookRuns \/ OnlyToolHooksRun
    PROVE  SeenInv'
<1>1. /\ row' = row /\ clock' = clock + 1 /\ marks' = marks
      /\ writer' = [writer EXCEPT ![h] = Fired(e)]
  BY DEF Run
<1>2. /\ \A w \in Writers \ {h} : writer'[w] = writer[w]
      /\ DOMAIN writer'[h].fields = {}
  BY <1>1, NothingIsEmpty DEF Fired, Inv, TypeOK, Writers
<1>3. ASSUME NEW w \in Writers PROVE "msg" \notin DOMAIN writer'[w].fields
  <2> SUFFICES ASSUME "msg" \in DOMAIN writer'[w].fields PROVE FALSE
    OBVIOUS
  <2>1. writer'[w] = writer[w]
    BY <1>2
  <2>2. w \in Hooks /\ writer[w].event = "stop"
    BY <2>1 DEF SeenInv, StopIsNow
  <2>3. Busy(w)
    BY <2>1, NothingIsEmpty DEF Inv, TypeOK, WriterOK, Busy
  <2> QED
    BY <2>2, <2>3 DEF NoHookRuns, OnlyToolHooksRun, ToolEvents
<1> QED
  BY <1>1, <1>2, <1>3, KeptFieldsKeepSeen

LEMMA HookStepKeepsSeen ==
    ASSUME Inv, SeenInv, NEW h \in Hooks, HookStep(h) PROVE SeenInv'
<1> h \in Writers
  BY DEF Writers
<1>1. ASSUME StartAgent(h) PROVE SeenInv'
  BY <1>1, RunKeepsSeen DEF StartAgent, Inv, Alone
<1>2. ASSUME SubmitPrompt(h) \/ EndTurn(h) PROVE SeenInv'
  BY <1>2, RunKeepsSeen DEF SubmitPrompt, EndTurn
<1>3. ASSUME StartTool(h) \/ AskUser(h) \/ EndTool(h) PROVE SeenInv'
  <2>1. OnlyToolHooksRun
    <3>1. OnlyToolHooksRun \/ agent.tool[h] # "none"
      BY <1>3 DEF StartTool, AskUser, EndTool
    <3> QED
      BY <3>1 DEF Inv, Alone, NoTools
  <2>2. PICK e : Run(h, e)
    BY <1>3 DEF StartTool, AskUser, EndTool
  <2> QED
    BY <2>1, <2>2, RunKeepsSeen
<1>4. ASSUME KillHook(h) \/ (HookReads(h) /\ row = Nothing) PROVE SeenInv'
  <2>1. /\ writer' = [writer EXCEPT ![h] = Idle]
        /\ row' = row /\ clock' = clock /\ marks' = marks
    BY <1>4 DEF KillHook, HookReads
  <2>2. \A w \in Writers : writer'[w] = writer[w] \/ writer'[w].fields = Nothing
    BY <2>1 DEF Idle, Inv, TypeOK
  <2> QED
    BY <2>1, <2>2, NothingIsEmpty, KeptFieldsKeepSeen
<1>5. ASSUME HookReads(h), row # Nothing PROVE SeenInv'
  <2>1. PICK f \in HookFields(writer[h].event, row) :
          writer' = [writer EXCEPT ![h].at = "computed", ![h].fields = f]
    BY <1>5 DEF HookReads
  <2>2. writer[h].event \in Events /\ row' = row /\ clock' = clock /\ marks' = marks
    BY <1>5 DEF HookReads, Inv, Alone, Busy
  <2>3. /\ \A k \in {"active", "msg"} \intersect DOMAIN f : f[k] = clock
        /\ "seen" \notin DOMAIN f
        /\ "msg" \in DOMAIN f => writer[h].event = "stop"
    BY <2>1, <2>2, HookFieldsAreNow
  <2>4. Computes(h, f, writer[h].saw)
    BY <2>1, HookComputes
  <2> QED
    BY <2>2, <2>3, <2>4, ComputedKeepsSeen
<1> QED
  BY <1>1, <1>2, <1>3, <1>4, <1>5 DEF HookStep

\* A PATCH marks what the row it reads says was delivered: its response or,
\* if it has none, what it was last active for.
LEMMA PatchKeepsSeen ==
    ASSUME Inv, SeenInv, NEW r \in Requests,
           NEW parts \in (SUBSET {"name", "seen", "state"}) \ {{}}, Patch(r, parts)
    PROVE  SeenInv'
<1> DEFINE f == [k \in parts |-> CASE k = "name" -> 1
                                   [] k = "seen" -> DeliveredAt(row)
                                   [] k = "state" -> "done"]
<1> DEFINE s == IF parts = {"name"} THEN Nothing ELSE row
<1>1. writer' = [writer EXCEPT ![r].at = "computed", ![r].saw = s, ![r].fields = f]
  BY Zenon DEF Patch
<1>2. row' = row /\ clock' = clock /\ marks' = marks
  BY Zenon DEF Patch
<1>3. DOMAIN f = parts /\ "active" \notin parts /\ "msg" \notin parts
  <2>1. parts \subseteq {"name", "seen", "state"}
    OBVIOUS
  <2>2. DOMAIN f = parts
    BY Zenon
  <2> QED
    BY <2>1, <2>2
<1>4. ASSUME "seen" \in parts
      PROVE  /\ f["seen"] <= clock
             /\ s["msg"] # 0 => f["seen"] = s["msg"]
             /\ s["msg"] # 0 /\ row # Nothing => f["seen"] <= row["msg"]
  <2>1. f["seen"] = DeliveredAt(row) /\ s = row
    BY <1>4
  <2>2. row # Nothing /\ DeliveredAt(row) # 0
    BY <1>4, Zenon DEF Patch
  <2>3. DeliveredAt(row) = IF row["msg"] # 0 THEN row["msg"] ELSE row["active"]
    BY <2>2 DEF DeliveredAt
  <2>4. /\ row["msg"] \in Nat /\ row["active"] \in Nat /\ clock \in Nat
        /\ row["msg"] <= clock /\ row["active"] <= clock
    BY <2>2, TimesAreNatural DEF SeenInv, Elapsed
  <2> HIDE DEF f, s
  <2> QED
    BY <2>1, <2>3, <2>4
<1>5. r \in Writers
  BY DEF Writers
<1> HIDE DEF f, s
<1>6. Computes(r, f, s)
  BY <1>1, <1>5, PatchComputes
<1> QED
  BY <1>2, <1>3, <1>4, <1>5, <1>6, ComputedKeepsSeen

LEMMA RequestStepKeepsSeen ==
    ASSUME Inv, SeenInv, NEW r \in Requests, RequestStep(r) PROVE SeenInv'
<1>1. ASSUME NEW started \in {{}} \union {{h} : h \in Hooks}, Restart(r, started) PROVE SeenInv'
  <2>1. /\ \A w \in Writers : writer'[w] = IF w = r THEN Fired("restart")
                                           ELSE IF w \in started THEN Fired("session-start")
                                           ELSE IF w \in Hooks THEN Idle ELSE writer[w]
        /\ row' = row /\ clock' = clock + 1 /\ marks' = marks
    BY <1>1 DEF Restart
  <2>2. \A w \in Writers : IF w \in Hooks \union {r} THEN DOMAIN writer'[w].fields = {}
                                                    ELSE writer'[w] = writer[w]
    BY <2>1, NothingIsEmpty DEF Fired, Idle
  <2>3. \A w \in Writers : "msg" \notin DOMAIN writer'[w].fields
    BY <2>2 DEF SeenInv, StopIsNow
  <2> QED
    BY <2>1, <2>2, <2>3, KeptFieldsKeepSeen
<1>2. ASSUME RestartStamps(r) PROVE SeenInv'
  <2>1. /\ writer' = [writer EXCEPT ![r].at = "computed", ![r].fields = Activity("prompt")]
        /\ row' = row /\ clock' = clock /\ marks' = marks /\ r \in Writers
    BY <1>2 DEF RestartStamps, Writers
  <2>2. DOMAIN Activity("prompt") = {"state", "active"} /\ Activity("prompt")["active"] = clock
    BY DEF Activity
  <2>3. Computes(r, Activity("prompt"), writer[r].saw)
    BY <2>1, HookComputes
  <2> QED
    BY <2>1, <2>2, <2>3, ComputedKeepsSeen
<1> QED
  BY <1>1, <1>2, PatchKeepsSeen DEF RequestStep

\* What a commit writes is of the row of the moment: a response it brings is
\* newer than every one seen, and one it marks seen is the row's.
LEMMA CommitKeepsSeen ==
    ASSUME Inv, SeenInv, NEW w \in Writers, Commit(w) PROVE SeenInv'
<1> DEFINE f == writer[w].fields
<1>1. /\ row # Nothing /\ row' # Nothing
      /\ \A k \in {"active", "msg", "seen"} : row'[k] = IF k \in DOMAIN f THEN f[k] ELSE row[k]
  <2>1. row # Nothing /\ row' = Merged(f, row) /\ row' # Nothing
    BY CommitKeepsInv
  <2>2. {"active", "msg", "seen"} \subseteq Keys
    BY DEF Keys
  <2> QED
    BY <2>1, <2>2 DEF Merged
<1>2. /\ clock' = clock /\ clock \in Nat
      /\ \A v \in Writers \ {w} : writer'[v] = writer[v]
      /\ DOMAIN writer'[w].fields = {}
  BY TimesAreNatural, NothingIsEmpty DEF Commit, Idle, Inv, TypeOK
<1>3. \A k \in {"active", "msg", "seen"} :
        /\ row[k] \in Nat /\ row[k] <= clock
        /\ k \in DOMAIN f => f[k] \in Nat /\ f[k] <= clock
  BY <1>1, TimesAreNatural DEF SeenInv, Elapsed
<1>4. Elapsed' /\ StopIsNow'
  BY <1>1, <1>2, <1>3 DEF SeenInv, Elapsed, StopIsNow
<1>5. "msg" \in DOMAIN f => f["msg"] = clock
  BY DEF SeenInv, StopIsNow
<1>6. ASSUME NEW v \in Writers, "seen" \in DOMAIN writer[v].fields, writer[v].saw["msg"] # 0
      PROVE  writer[v].fields["seen"] = writer[v].saw["msg"]
             /\ writer[v].fields["seen"] <= row'["msg"]
  <2>1. writer[v].fields["seen"] \in Nat /\ writer[v].fields["seen"] <= clock
    BY <1>6, TimesAreNatural DEF SeenInv, Elapsed
  <2>2. /\ writer[v].fields["seen"] = writer[v].saw["msg"]
        /\ writer[v].fields["seen"] <= row["msg"]
    BY <1>1, <1>6 DEF SeenInv, MarkOfResponse
  <2>3. row'["msg"] = clock \/ row'["msg"] = row["msg"]
    BY <1>1, <1>5
  <2> QED
    BY <2>1, <2>2, <2>3
<1>7. MarkOfResponse'
  BY <1>2, <1>6 DEF MarkOfResponse
<1>8. RowMark'
  <2> SUFFICES ASSUME marks'.read # 0
               PROVE  row'["seen"] = marks'.read /\ row'["seen"] <= row'["msg"]
    BY DEF RowMark
  <2>1. CASE "seen" \in DOMAIN f
    <3>1. marks'.read = writer[w].saw["msg"]
      BY <2>1, Zenon DEF Commit, Note
    <3> QED
      BY <1>1, <1>6, <2>1, <3>1
  <2>2. CASE "seen" \notin DOMAIN f
    <3>1. marks'.read = marks.read
      BY <2>2, Zenon DEF Commit, Note
    <3>2. row["seen"] = marks.read /\ row["seen"] <= row["msg"]
      BY <1>1, <3>1 DEF SeenInv, RowMark
    <3>3. row'["seen"] = row["seen"] /\ row'["msg"] \in {clock, row["msg"]}
      BY <1>1, <1>5, <2>2
    <3> QED
      BY <1>3, <3>1, <3>2, <3>3
  <2> QED
    BY <2>1, <2>2
<1> QED
  BY <1>4, <1>7, <1>8 DEF SeenInv

LEMMA NextKeepsSeen == Inv /\ SeenInv /\ [Next]_vars => SeenInv'
<1> SUFFICES ASSUME Inv, SeenInv, [Next]_vars PROVE SeenInv'
  OBVIOUS
<1>1. ASSUME NEW w \in Writers, Begin(w) PROVE SeenInv'
  <2>1. row' = row /\ clock' = clock /\ marks' = marks
    BY <1>1 DEF Begin
  <2>2. \A v \in Writers : \/ DOMAIN writer'[v].fields = {}
                           \/ /\ writer'[v].fields = writer[v].fields
                              /\ writer'[v].event = writer[v].event
                              /\ writer'[v].saw = writer[v].saw
    <3>1. WriterOK(writer[w]) /\ DOMAIN writer = Writers
      BY DEF Inv, TypeOK
    <3>2. CASE row = Nothing
      BY <1>1, <3>1, <3>2, NothingIsEmpty DEF Begin, Idle
    <3>3. CASE row # Nothing
      <4>1. writer' = [writer EXCEPT ![w].at = "tx", ![w].snap = row]
        BY <1>1, <3>3 DEF Begin
      <4> QED
        BY <3>1, <4>1 DEF WriterOK
    <3> QED
      BY <3>2, <3>3
  <2> QED
    BY <2>1, <2>2, KeptFieldsKeepSeen
<1>2. ASSUME NEW w \in Writers, Refuse(w) PROVE SeenInv'
  <2>1. /\ row' = row /\ clock' = clock /\ marks' = marks
        /\ writer' = [writer EXCEPT ![w] = Idle]
    BY <1>2 DEF Refuse
  <2>2. \A v \in Writers : writer'[v] = writer[v] \/ writer'[v].fields = Nothing
    BY <2>1 DEF Idle, Inv, TypeOK
  <2> QED
    BY <2>1, <2>2, NothingIsEmpty, KeptFieldsKeepSeen
<1>3. ASSUME Interrupt PROVE SeenInv'
  <2>1. \A v \in Writers : writer'[v] = writer[v] \/ writer'[v].fields = Nothing
    BY <1>3 DEF Interrupt, Idle
  <2> QED
    BY <1>3, <2>1, NothingIsEmpty, KeptFieldsKeepSeen DEF Interrupt
<1>4. ASSUME CommitElsewhere \/ Delete \/ UNCHANGED vars PROVE SeenInv'
  <2>1. /\ writer' = writer /\ row' \in {row, Nothing}
        /\ clock' = clock /\ marks' = marks
    BY <1>4 DEF CommitElsewhere, Delete, vars
  <2> QED
    BY <2>1, KeptFieldsKeepSeen
<1> QED
  BY <1>1, <1>2, <1>3, <1>4, HookStepKeepsSeen, RequestStepKeepsSeen, CommitKeepsSeen DEF Next

\* The mark of a response a request had read leaves every other response
\* unseen, however late the request's merge comes and whatever was delivered
\* in between or is delivered after (server/sessions.go:197-202).
THEOREM SeenStaysDelivered == Spec => []SeenWasDelivered
<1>1. Init => SeenInv
  <2> SUFFICES ASSUME Init PROVE SeenInv
    OBVIOUS
  <2>1. \A w \in Writers : DOMAIN writer[w].fields = {}
    BY NothingIsEmpty DEF Init, Idle
  <2>2. clock = 0 /\ \A k \in {"active", "msg", "seen"} : row[k] = 0
    BY DEF Init, Keys
  <2> QED
    BY <2>1, <2>2 DEF Init, SeenInv, Elapsed, StopIsNow, MarkOfResponse, RowMark
<1>2. Inv /\ SeenInv => SeenWasDelivered
  <2> SUFFICES ASSUME Inv, SeenInv, row # Nothing, marks.read # 0, row["msg"] # marks.read
               PROVE  row["seen"] < row["msg"]
    BY DEF SeenWasDelivered
  <2>1. row["seen"] \in Nat /\ row["msg"] \in Nat
    BY TimesAreNatural
  <2>2. row["seen"] = marks.read /\ row["seen"] <= row["msg"]
    BY DEF SeenInv, RowMark
  <2> QED
    BY <2>1, <2>2
<1> QED
  BY <1>1, <1>2, NextKeepsSeen, Invariance, PTL DEF Spec
=============================================================================
