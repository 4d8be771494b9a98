--------------------------- MODULE EventJournalMC ---------------------------
(* Small instances of EventJournal: drafts the parent workflow, the          *)
(* executor, the operator's requests and the tests append.                   *)
EXTENDS EventJournal

D(key, family, subject, status, mark, named) ==
  [key |-> key, family |-> family, subject |-> subject, status |-> status,
   mark |-> mark, named |-> named]

RunCreated   == D("run.created", "run", NoSubject, "queued", "keep", TRUE)
RunStarted   == D(NoKey, "run", NoSubject, "running", "keep", TRUE)
RunCompleted == D("workflow.completed", "run", NoSubject, "completed", "set", TRUE)
WorkPlanned  == D("work:planned", "work", "item", "running", "set", TRUE)
AgentStarted == D(NoKey, "subagent", "agent", "running", "keep", TRUE)
AgentFailed  == D("subagent:1:failed", "subagent", "agent", "failed", "set", FALSE)
ToolStarted  == D(NoKey, "tool", NoSubject, "running", "keep", TRUE)

AllDrafts  == {RunStarted, RunCompleted, WorkPlanned, AgentStarted, AgentFailed}
ToolDrafts == {ToolStarted}
WriterSymmetry == Permutations(Writers)
=============================================================================
