---------------------------- MODULE HookMetadata ----------------------------
(***************************************************************************)
(* The metadata of one worker's row and everyone who writes it: the hooks  *)
(* the agent runs, each a process of its own with its own connection to    *)
(* the database (cli/hooks.go), the requests of the web application that   *)
(* rename the session or mark it seen or done (server/sessions.go), and    *)
(* the engine's Restart (session/engine.go).  All of them read the row,    *)
(* compute fields, and merge the fields in a transaction that reads the    *)
(* metadata before it writes them (store/sessions.go).                     *)
(*                                                                         *)
(* The agent is external: it runs a hook for every event and waits for it, *)
(* except that the hooks of parallel tool calls overlap.  It kills a hook  *)
(* after thirty seconds; its hooks die with it.  SQLite is external too:   *)
(* in WAL mode a transaction reads one snapshot, and if anybody committed  *)
(* since, its first write is refused (SQLITE_BUSY_SNAPSHOT) at once.       *)
(*                                                                         *)
(* Times are event numbers; 0 is a field not set.  Bulletins, recap and    *)
(* triage reason are written together with the state and left out.         *)
(***************************************************************************)
EXTENDS Naturals

CONSTANTS
    Hooks,     \* hook processes that can overlap, and the tool calls they report
    Requests,  \* requests of the application under way at a time
    MaxEvents  \* bound: events of the agent

Writers == Hooks \union Requests
States == {"working", "prompt", "triage", "done"}
ToolEvents == {"pre-tool-use", "ask", "post-tool-use"}
Events == ToolEvents \union {"session-start", "user-prompt-submit", "stop"}
Keys == {"state", "active", "msg", "seen", "title", "agentId", "name"}
Times == 0..MaxEvents

ASSUME Distinct == Hooks \intersect Requests = {}
ASSUME Bounds == MaxEvents \in Nat \ {0} /\ Hooks # {}

VARIABLES
    row,     \* the row's metadata, Nothing once it is deleted
    writer,  \* writer -> [at, event, fields, snap, saw]
    stale,   \* open transactions whose snapshot is no longer the database
    agent,   \* [busy, tool]: in a turn or not; what each tool call is doing
    clock,   \* events of the agent so far
    told,    \* the row's state comes from a report of a turn, and none was lost since
    marks    \* [late, read], of the application's marks in the row (history): was
             \* done merged over a report that came after its request read a prompt;
             \* the response that the request to mark it seen had read, if any

vars == <<row, writer, stale, agent, clock, told, marks>>

Nothing == [k \in {} |-> 0]
Idle == [at |-> "idle", event |-> "none", fields |-> Nothing, snap |-> Nothing,
         saw |-> Nothing]
Fired(e) == [at |-> "fired", event |-> e, fields |-> Nothing, snap |-> Nothing,
             saw |-> Nothing]
Open == {w \in Writers : writer[w].at = "tx"}
Busy(h) == writer[h].at # "idle"
NoTools == [h \in Hooks |-> "none"]

Merged(fields, r) ==
    [k \in Keys |-> IF k \in DOMAIN fields THEN fields[k] ELSE r[k]]

Init ==
    /\ row = [k \in Keys |-> IF k = "state" THEN "working" ELSE 0]
    /\ writer = [w \in Writers |-> Idle]
    /\ stale = {}
    /\ agent = [busy |-> FALSE, tool |-> NoTools]
    /\ clock = 0
    /\ told = FALSE
    /\ marks = [late |-> FALSE, read |-> 0]
-----------------------------------------------------------------------------
(* The agent *)

\* The agent runs hook h for event e and waits for it.
Run(h, e) ==
    /\ clock < MaxEvents
    /\ clock' = clock + 1
    /\ writer' = [writer EXCEPT ![h] = Fired(e)]
    /\ UNCHANGED <<row, stale, told, marks>>

NoHookRuns == \A h \in Hooks : ~Busy(h)
OnlyToolHooksRun == \A h \in Hooks : Busy(h) => writer[h].event \in ToolEvents

StartAgent(h) ==
    /\ clock = 0
    /\ Run(h, "session-start")
    /\ UNCHANGED agent

SubmitPrompt(h) ==
    /\ clock > 0
    /\ ~agent.busy
    /\ NoHookRuns
    /\ agent' = [agent EXCEPT !.busy = TRUE]
    /\ Run(h, "user-prompt-submit")

StartTool(h) ==
    /\ agent.busy
    /\ ~Busy(h)
    /\ OnlyToolHooksRun
    /\ agent.tool[h] = "none"
    /\ agent' = [agent EXCEPT !.tool[h] = "running"]
    /\ Run(h, "pre-tool-use")

\* The tool needs an approval, or is itself a question to the user.
AskUser(h) ==
    /\ ~Busy(h)
    /\ agent.tool[h] = "running"
    /\ agent' = [agent EXCEPT !.tool[h] = "asking"]
    /\ Run(h, "ask")

EndTool(h) ==
    /\ ~Busy(h)
    /\ agent.tool[h] # "none"
    /\ agent' = [agent EXCEPT !.tool[h] = "none"]
    /\ Run(h, "post-tool-use")

EndTurn(h) ==
    /\ agent.busy
    /\ agent.tool = NoTools
    /\ NoHookRuns
    /\ agent' = [agent EXCEPT !.busy = FALSE]
    /\ Run(h, "stop")

\* The user interrupts the turn: no hook tells.
Interrupt ==
    /\ agent.busy
    /\ agent' = [busy |-> FALSE, tool |-> NoTools]
    /\ writer' = [w \in Writers |-> IF w \in Hooks THEN Idle ELSE writer[w]]
    /\ stale' = stale \ Hooks
    /\ told' = FALSE
    /\ UNCHANGED <<row, clock, marks>>

\* The hook's timeout: the process dies where it is.
KillHook(h) ==
    /\ Busy(h)
    /\ writer' = [writer EXCEPT ![h] = Idle]
    /\ stale' = stale \ {h}
    /\ told' = FALSE
    /\ UNCHANGED <<row, agent, clock, marks>>
-----------------------------------------------------------------------------
(* A hook *)

Activity(state) == [state |-> state, active |-> clock]

\* The first prompt's title: the agent may fail to generate one in time.
TitleFields(r) ==
    {Activity("working")} \union
    IF r["title"] = 0
      THEN {[state |-> "working", active |-> clock, title |-> clock]}
      ELSE {}

\* Mistaken: The session-start hook records every start's id.
HookFieldsOfAnyStart(e, r) ==
    CASE e = "session-start" -> {[state |-> "working", active |-> clock, agentId |-> clock]}
      [] e = "user-prompt-submit" -> TitleFields(r)
      [] e \in {"pre-tool-use", "post-tool-use"} -> {Activity("working")}
      [] e = "ask" -> {Activity("triage")}
      [] e = "stop" -> {[state |-> "prompt", active |-> clock, msg |-> clock]}

HookFields(e, r) ==
    CASE e = "session-start" ->
           IF r["agentId"] = 0
             THEN {[state |-> "working", active |-> clock, agentId |-> clock]}
             ELSE {Activity("working")}
      [] e = "user-prompt-submit" -> TitleFields(r)
      [] e \in {"pre-tool-use", "post-tool-use"} -> {Activity("working")}
      [] e = "ask" -> {Activity("triage")}
      [] e = "stop" -> {[state |-> "prompt", active |-> clock, msg |-> clock]}

HookReads(h) ==
    /\ writer[h].at = "fired"
    /\ IF row = Nothing
         THEN writer' = [writer EXCEPT ![h] = Idle]
         ELSE \E fields \in HookFields(writer[h].event, row) :
                writer' = [writer EXCEPT ![h].at = "computed", ![h].fields = fields]
    /\ UNCHANGED <<row, stale, agent, clock, told, marks>>
-----------------------------------------------------------------------------
(* MergeMetadata, by a hook or in the server *)

Begin(w) ==
    /\ writer[w].at = "computed"
    /\ IF row = Nothing
         THEN writer' = [writer EXCEPT ![w] = Idle]
         ELSE writer' = [writer EXCEPT ![w].at = "tx", ![w].snap = row]
    /\ UNCHANGED <<row, stale, agent, clock, told, marks>>

\* The database changes under every other transaction that is open.
Outdate(w) == stale' = Open \ {w}

\* History: what the merged fields make of the row's state and marks.
Note(w) ==
    LET fields == writer[w].fields IN
    /\ told' = IF w \in Hooks THEN writer[w].event # "session-start"
               ELSE told /\ writer[w].event # "restart"
    /\ marks' =
         [late |-> IF "state" \in DOMAIN fields
                     THEN /\ fields["state"] = "done"
                          /\ writer[w].saw["state"] = "prompt"
                          /\ row["state"] # "prompt"
                     ELSE marks.late,
          read |-> IF "seen" \in DOMAIN fields THEN writer[w].saw["msg"] ELSE marks.read]

\* Mistaken: The merge without its transaction: the row read is written back later.
CommitUnchecked(w) ==
    /\ writer[w].at = "tx"
    /\ row # Nothing
    /\ row' = Merged(writer[w].fields, writer[w].snap)
    /\ writer' = [writer EXCEPT ![w] = Idle]
    /\ Outdate(w)
    /\ Note(w)
    /\ UNCHANGED <<agent, clock>>

\* The merge is on the snapshot: SQLite lets it through only if it is current.
Commit(w) ==
    /\ writer[w].at = "tx"
    /\ w \notin stale
    /\ row' = Merged(writer[w].fields, writer[w].snap)
    /\ writer' = [writer EXCEPT ![w] = Idle]
    /\ Outdate(w)
    /\ Note(w)
    /\ UNCHANGED <<agent, clock>>

\* Mistaken: A rollback that leaves the hook's fields for a next attempt it never makes.
RefuseKeepingFields(w) ==
    /\ writer[w].at = "tx"
    /\ w \in stale
    /\ writer' = [writer EXCEPT ![w] = [Idle EXCEPT !.fields = writer[w].fields]]
    /\ stale' = stale \ {w}
    /\ told' = (told /\ w \in Requests)
    /\ UNCHANGED <<row, agent, clock, marks>>

\* The transaction is rolled back and the hook or request ends with an error.
Refuse(w) ==
    /\ writer[w].at = "tx"
    /\ w \in stale
    /\ writer' = [writer EXCEPT ![w] = Idle]
    /\ stale' = stale \ {w}
    /\ told' = (told /\ w \in Requests)
    /\ UNCHANGED <<row, agent, clock, marks>>

\* A transaction on any other row of the database commits.
CommitElsewhere ==
    /\ stale # Open
    /\ stale' = Open
    /\ UNCHANGED <<row, writer, agent, clock, told, marks>>
-----------------------------------------------------------------------------
(* The application *)

\* Mistaken: The response is marked seen as of the request, not as of its delivery.
DeliveredAtNow(r) == IF r["state"] # "prompt" THEN 0 ELSE clock

DeliveredAt(r) == IF r["state"] # "prompt" THEN 0
                  ELSE IF r["msg"] # 0 THEN r["msg"] ELSE r["active"]

\* Mistaken: A PATCH marks any session done.
PatchAnyState(r, parts) ==
    /\ writer[r] = Idle
    /\ row # Nothing
    /\ "seen" \in parts => DeliveredAt(row) # 0
    /\ writer' = [writer EXCEPT
         ![r].at = "computed",
         ![r].saw = IF parts = {"name"} THEN Nothing ELSE row,
         ![r].fields = [k \in parts |-> CASE k = "name" -> 1
                                          [] k = "seen" -> DeliveredAt(row)
                                          [] k = "state" -> "done"]]
    /\ UNCHANGED <<row, stale, agent, clock, told, marks>>

\* A PATCH reads the row, decides and computes its fields: part of a request
\* may rename the session, mark its response seen, or mark it done.
Patch(r, parts) ==
    /\ writer[r] = Idle
    /\ "seen" \in parts => row # Nothing /\ DeliveredAt(row) # 0
    /\ "state" \in parts => row # Nothing /\ row["state"] = "prompt"
    /\ writer' = [writer EXCEPT
         ![r].at = "computed",
         ![r].saw = IF parts = {"name"} THEN Nothing ELSE row,
         ![r].fields = [k \in parts |-> CASE k = "name" -> 1
                                          [] k = "seen" -> DeliveredAt(row)
                                          [] k = "state" -> "done"]]
    /\ UNCHANGED <<row, stale, agent, clock, told, marks>>

\* Restart kills the agent and starts it on its recorded conversation; some
\* agents run their session-start hook again.  The engine then merges its own
\* fields, in no order with that hook.
Restart(r, started) ==
    /\ writer[r] = Idle
    /\ row # Nothing /\ row["agentId"] # 0
    /\ clock < MaxEvents
    /\ clock' = clock + 1
    /\ agent' = [busy |-> FALSE, tool |-> NoTools]
    /\ writer' = [w \in Writers |->
         IF w = r THEN Fired("restart")
         ELSE IF w \in started THEN Fired("session-start")
         ELSE IF w \in Hooks THEN Idle
         ELSE writer[w]]
    /\ stale' = stale \ Hooks
    /\ told' = FALSE
    /\ UNCHANGED <<row, marks>>

RestartStamps(r) ==
    /\ writer[r].at = "fired"
    /\ writer' = [writer EXCEPT ![r].at = "computed", ![r].fields = Activity("prompt")]
    /\ UNCHANGED <<row, stale, agent, clock, told, marks>>

Delete ==
    /\ row # Nothing
    /\ row' = Nothing
    /\ stale' = Open
    /\ UNCHANGED <<writer, agent, clock, told, marks>>
-----------------------------------------------------------------------------
HookStep(h) ==
    \/ StartAgent(h) \/ SubmitPrompt(h) \/ StartTool(h) \/ AskUser(h)
    \/ EndTool(h) \/ EndTurn(h) \/ KillHook(h) \/ HookReads(h)

RequestStep(r) ==
    \/ \E parts \in (SUBSET {"name", "seen", "state"}) \ {{}} : Patch(r, parts)
    \/ \E started \in {{}} \union {{h} : h \in Hooks} : Restart(r, started)
    \/ RestartStamps(r)

Next ==
    \/ \E h \in Hooks : HookStep(h)
    \/ \E r \in Requests : RequestStep(r)
    \/ \E w \in Writers : Begin(w) \/ Commit(w) \/ Refuse(w)
    \/ Interrupt
    \/ CommitElsewhere
    \/ Delete

Spec == Init /\ [][Next]_vars
-----------------------------------------------------------------------------
(* Properties *)

Metadata(f) ==
    /\ f = [k \in DOMAIN f |-> f[k]]
    /\ DOMAIN f \subseteq Keys /\ DOMAIN f # {}
    /\ \A k \in DOMAIN f : f[k] \in IF k = "state" THEN States ELSE Times

WriterOK(x) ==
    /\ x = [at |-> x.at, event |-> x.event, fields |-> x.fields, snap |-> x.snap,
            saw |-> x.saw]
    /\ x.saw # Nothing => Metadata(x.saw) /\ DOMAIN x.saw = Keys
    /\ x.at \in {"idle", "fired", "computed", "tx"}
    /\ x.event \in Events \union {"none", "restart"}
    /\ IF x.at \in {"computed", "tx"} THEN Metadata(x.fields) ELSE x.fields = Nothing

\* Every variable has its type: a writer has fields to merge from its read to
\* the end of its transaction, and only open transactions are outdated.
TypeOK ==
    /\ row # Nothing => Metadata(row) /\ DOMAIN row = Keys
    /\ DOMAIN writer = Writers /\ \A w \in Writers : WriterOK(writer[w])
    /\ stale \subseteq Open
    /\ agent \in [busy : BOOLEAN, tool : [Hooks -> {"none", "running", "asking"}]]
    /\ ~agent.busy => agent.tool = NoTools
    /\ clock \in 0..MaxEvents
    /\ told \in BOOLEAN
    /\ marks \in [late : BOOLEAN, read : Times]

\* Whoever writes at the same time, an update is merged as a whole into the
\* row of that moment or not at all (sessions.go:181-228): what the lifecycle
\* model's one-step merges stand for.
Store == INSTANCE MetadataStore WITH pending <- [w \in Writers |-> writer[w].fields]
ImplementsStore == Store!Spec

\* When the agent's last change was reported and no report is under way, the
\* board tells a turn under way from one that waits for the user (hooks.go:
\* 304-356), however the hooks of parallel tool calls were ordered.  Over a
\* turn it says done only if the request read the row before the turn was
\* reported and was merged after (server/sessions.go:219-231).
StatusIsTrue ==
    told /\ row # Nothing /\ NoHookRuns =>
        row["state"] \in IF agent.busy
                          THEN {"working", "triage"} \union
                               (IF marks.late THEN {"done"} ELSE {})
                          ELSE {"prompt", "done"}

\* The mark of a response that a request had read never covers another one,
\* delivered after that and before or after the mark is merged (server/
\* sessions.go:197-202), whatever hooks, restarts and requests do meanwhile.
SeenWasDelivered ==
    row # Nothing /\ marks.read # 0 /\ row["msg"] # marks.read =>
        row["seen"] < row["msg"]

\* The agent's session id is that of its first start and the title that of
\* the first prompt that got one (hooks.go:308-317, 522): whatever hooks die,
\* are refused or overlap, nothing replaces them.
FirstNameStays ==
    [][row # Nothing /\ row' # Nothing =>
         \A k \in {"title", "agentId"} : row[k] # 0 => row'[k] = row[k]]_vars
=============================================================================
