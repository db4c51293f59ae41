--------------------------- MODULE WorkflowCreation ---------------------------
(***************************************************************************)
(* How a machine gets its Workflow, and loses it again                     *)
(* (src/controller/machine/workflow.go, template.go).  When the machine's  *)
(* template converts to Tasks, CAPT creates the Tasks and a Workflow that  *)
(* runs them; otherwise the Template and a Workflow that runs it in        *)
(* compatibility mode.  An attempt is a sequence of calls and may end      *)
(* after any of them; the next one starts over with what it finds.         *)
(*                                                                         *)
(* One machine and its worker.  A Task is created or updated right after   *)
(* it is read, in one step: a change in between fails the write, which is  *)
(* what a Fault does.                                                      *)
(***************************************************************************)
EXTENDS Naturals

CONSTANTS
  Data,         \* contents of templates
  NoData,       \* no template, or one that cannot be had
  Empty,        \* the content of a template that says nothing
  TaskNames,    \* names of Tasks
  Convertible,  \* the contents that convert to Tasks
  Needs,        \* the Tasks a convertible content converts to
  Setups,       \* what users and operators may configure
  Intrusions,   \* the steps at which another owner's Task may appear
  CacheLags,    \* reads come from a cache that may be behind
  MaxEdits,     \* bound on changes of the setup
  MaxFaults     \* bound on failed calls and crashes

Creating == {"getWorkflow", "getTemplate", "getData", "checkTasks", "ensureTasks",
             "createTemplate", "listTasks", "deleteTasks", "createWorkflow"}
Removing == {"removeTemplate", "listAll", "deleteAll", "removeWorkflow"}
Steps == Creating \cup Removing \cup {"idle", "gone"}

\* Where a template may come from; a hardware annotation is always a reference,
\* and only what a reference is to may be missing.
Levels == {"machine", "hardware", "cluster"}
Choice == [ref : BOOLEAN, data : Data \cup {Empty}] \cup [ref : {TRUE}, data : {NoData}]
Unset == [ref |-> FALSE, data |-> Empty]
Setup == [disks : BOOLEAN, boot : {"plain", "templated", "invalid"},
          source : [Levels -> Choice]]

ASSUME DataAssumption ==
  /\ {NoData, Empty} \cap Data = {} /\ NoData # Empty
  /\ Convertible \subseteq Data
  /\ Needs \in [Convertible -> SUBSET TaskNames]
ASSUME SetupAssumption ==
  /\ Setups \subseteq Setup
  /\ Intrusions \subseteq Steps
ASSUME WorkflowBounds == CacheLags \in BOOLEAN /\ MaxEdits \in Nat /\ MaxFaults \in Nat

VARIABLES
  setup,         \* what is configured now
  served,        \* Tinkerbell still serves Templates
  deleting,      \* the machine has a deletion timestamp
  tasks,         \* the Tasks: whose they are and what they were made from
  template,      \* the data of the Template of the machine's name
  workflow,      \* the Workflow of the machine's name
  seen,          \* the caches of these three
  pc,            \* the worker's next call
  plan,          \* the data it works with and the form it has chosen
  todo,          \* Tasks it has still to look at
  edits, faults

vars == <<setup, served, deleting, tasks, template, workflow, seen, pc, plan, todo,
          edits, faults>>
store == <<tasks, template, workflow>>
world == <<setup, served, deleting, edits>>

TaskRec == [owner : {"none", "machine", "other"}, data : Data \cup {NoData}]
WorkflowRec == [form : {"none", "native", "compatibility"}, data : Data \cup {NoData}]
NoTask == [owner |-> "none", data |-> NoData]
NoWorkflow == [form |-> "none", data |-> NoData]
Store == [tasks : [TaskNames -> TaskRec], template : Data \cup {NoData},
          workflow : WorkflowRec]

Now == [tasks |-> tasks, template |-> template, workflow |-> workflow]
Read == IF CacheLags THEN seen ELSE Now
Own(ts) == {n \in TaskNames : ts[n].owner = "machine"}

Goto(step) == pc' = step

\* The attempt ends, with an error or without.
Return == Goto("idle") /\ plan' = NoWorkflow /\ todo' = {}

-------------------------------------------------------------------------------
\* fetchTemplateRefData: a reference is to a Template object.
Fetched(choice) == IF choice.ref /\ ~served THEN NoData ELSE choice.data

\* resolveTemplateData: machine, hardware annotation, cluster.  The first that
\* is set counts, also when what it refers to cannot be had; but an annotation
\* that refers to an empty Template leaves it to the cluster.
Resolved ==
  LET From(level) == Fetched(setup.source[level])
  IN IF setup.source["machine"] # Unset THEN From("machine")
     ELSE IF From("hardware") # Empty THEN From("hardware") ELSE From("cluster")

\* templateData: Hardware without disks cannot be provisioned, and nothing can
\* without a template.
TemplateData == IF setup.disks /\ Resolved # Empty THEN Resolved ELSE NoData

WorkflowInit ==
  /\ setup \in Setups
  /\ served = TRUE
  /\ deleting = FALSE
  /\ tasks = [n \in TaskNames |-> NoTask]
  /\ template = NoData
  /\ workflow = NoWorkflow
  /\ seen = Now
  /\ pc = "idle" /\ plan = NoWorkflow /\ todo = {}
  /\ edits = 0 /\ faults = 0

\* The worker takes up the machine: ensureWorkflow, or removeDependencies for
\* one that is being deleted.  The caches have caught up, or have not.
Begin ==
  /\ pc = "idle"
  /\ seen' \in {Now} \cup (IF CacheLags THEN {seen} ELSE {})
  /\ Goto(IF deleting THEN "removeTemplate" ELSE "getWorkflow")
  /\ UNCHANGED <<store, world, plan, todo, faults>>

\* getWorkflow, and newWorkflow when there is none: boot options that make no
\* Workflow are an error.
GetWorkflow ==
  /\ pc = "getWorkflow"
  /\ IF Read.workflow # NoWorkflow \/ setup.boot = "invalid"
     THEN Return
     ELSE Goto("getTemplate") /\ UNCHANGED <<plan, todo>>
  /\ UNCHANGED <<store, seen, world, faults>>

\* A slip: the machine's Template is not looked for.
GetTemplateSkipped ==
  /\ pc = "getTemplate"
  /\ Goto("getData")
  /\ UNCHANGED <<store, seen, world, plan, todo, faults>>

\* templateExists: a Template left by an earlier attempt is run as it is.
GetTemplate ==
  /\ pc = "getTemplate"
  /\ IF served /\ Read.template # NoData
     THEN /\ plan' = [form |-> "compatibility", data |-> NoData]
          /\ Goto("listTasks")
     ELSE UNCHANGED plan /\ Goto("getData")
  /\ UNCHANGED <<store, seen, world, todo, faults>>

\* A slip: ErrNoTemplateFound is not returned.
GetDataUnchecked ==
  /\ pc = "getData"
  /\ \/ (~setup.disks \/ Resolved = NoData) /\ Return
     \/ /\ setup.disks /\ Resolved # NoData
        /\ IF Resolved \in Convertible /\ setup.boot # "templated"
           THEN /\ plan' = [form |-> "native", data |-> Resolved]
                /\ todo' = Needs[Resolved]
                /\ Goto("checkTasks")
           ELSE /\ plan' = [form |-> "compatibility", data |-> Resolved]
                /\ Goto("createTemplate") /\ UNCHANGED todo
  /\ UNCHANGED <<store, seen, world, faults>>

\* Without data an error, else nativeWorkflow up to the Tasks.
GetData ==
  /\ pc = "getData"
  /\ \/ TemplateData = NoData /\ Return
     \/ /\ TemplateData # NoData
        /\ IF TemplateData \in Convertible /\ setup.boot # "templated"
           THEN /\ plan' = [form |-> "native", data |-> TemplateData]
                /\ todo' = Needs[TemplateData]
                /\ Goto("checkTasks")
           ELSE /\ plan' = [form |-> "compatibility", data |-> TemplateData]
                /\ Goto("createTemplate") /\ UNCHANGED todo
  /\ UNCHANGED <<store, seen, world, faults>>

\* A slip: whose a Task is is not looked at.
CheckTasksForAnyOwner ==
  /\ pc = "checkTasks"
  /\ todo' = Needs[plan.data]
  /\ Goto("ensureTasks")
  /\ UNCHANGED <<store, seen, world, plan, faults>>

\* taskConflict: one Task after the other; a Task of another owner sends the
\* machine to compatibility mode.
CheckTasks ==
  /\ pc = "checkTasks"
  /\ \/ /\ todo = {}
        /\ todo' = Needs[plan.data]
        /\ Goto("ensureTasks") /\ UNCHANGED plan
     \/ \E n \in todo :
          IF Read.tasks[n].owner = "other"
          THEN /\ plan' = [plan EXCEPT !.form = "compatibility"]
               /\ todo' = {}
               /\ Goto("createTemplate")
          ELSE todo' = todo \ {n} /\ UNCHANGED <<pc, plan>>
  /\ UNCHANGED <<store, seen, world, faults>>

\* A slip: a Task of an earlier attempt is taken as it is.
EnsureTasksOnlyMissing ==
  /\ pc = "ensureTasks"
  /\ \/ todo = {} /\ Goto("listTasks") /\ UNCHANGED <<tasks, plan, todo>>
     \/ \E n \in todo :
          /\ tasks' = IF tasks[n] = NoTask
                      THEN [tasks EXCEPT ![n] = [owner |-> "machine", data |-> plan.data]]
                      ELSE tasks
          /\ todo' = todo \ {n}
          /\ UNCHANGED <<pc, plan>>
  /\ UNCHANGED <<template, workflow, seen, world, faults>>

\* ensureTasks: a missing Task is created, one that differs is updated.  A copy
\* out of date makes the server refuse the write.
EnsureTasks ==
  /\ pc = "ensureTasks"
  /\ \/ todo = {} /\ Goto("listTasks") /\ UNCHANGED <<tasks, plan, todo>>
     \/ \E n \in todo :
          \/ /\ Read.tasks[n] = tasks[n] \/ Read.tasks[n].data = plan.data
             /\ tasks' = IF Read.tasks[n].data = plan.data THEN tasks
                         ELSE [tasks EXCEPT ![n] =
                                 [owner |-> IF @.owner = "none" THEN "machine" ELSE @.owner,
                                  data |-> plan.data]]
             /\ todo' = todo \ {n}
             /\ UNCHANGED <<pc, plan>>
          \/ /\ Read.tasks[n] # tasks[n] /\ Read.tasks[n].data # plan.data
             /\ Return /\ UNCHANGED tasks
  /\ UNCHANGED <<template, workflow, seen, world, faults>>

\* createTemplate: not possible when Templates are not served, refused when
\* one exists.
CreateTemplate ==
  /\ pc = "createTemplate"
  /\ IF served /\ template = NoData
     THEN template' = plan.data /\ Goto("listTasks") /\ UNCHANGED <<plan, todo>>
     ELSE Return /\ UNCHANGED template
  /\ UNCHANGED <<tasks, workflow, seen, world, faults>>

Keep == IF plan.form = "native" THEN Needs[plan.data] ELSE {}

\* A slip: Tasks that are not needed any more are not looked for.
ListTasksSkipped ==
  /\ pc \in {"listTasks", "listAll"}
  /\ Goto(IF pc = "listAll" THEN "removeWorkflow" ELSE "createWorkflow")
  /\ UNCHANGED <<store, seen, world, plan, todo, faults>>

\* removeTasks: the machine's Tasks by their labels, but those to keep.
ListTasks ==
  /\ pc \in {"listTasks", "listAll"}
  /\ todo' = Own(Read.tasks) \ Keep
  /\ Goto(IF pc = "listAll" THEN "deleteAll" ELSE "deleteTasks")
  /\ UNCHANGED <<store, seen, world, plan, faults>>

DeleteTasks ==
  /\ pc \in {"deleteTasks", "deleteAll"}
  /\ \/ /\ todo = {}
        /\ Goto(IF pc = "deleteAll" THEN "removeWorkflow" ELSE "createWorkflow")
        /\ UNCHANGED <<tasks, todo>>
     \/ \E n \in todo : /\ tasks' = [tasks EXCEPT ![n] = NoTask]
                        /\ todo' = todo \ {n}
                        /\ UNCHANGED pc
  /\ UNCHANGED <<template, workflow, seen, world, plan, faults>>

\* createWorkflow, createCompatibilityWorkflow: the last call, refused when the
\* Workflow exists.
CreateWorkflow ==
  /\ pc = "createWorkflow"
  /\ workflow' = IF workflow # NoWorkflow THEN workflow
                 ELSE IF plan.form = "native" THEN plan
                 ELSE [form |-> "compatibility", data |-> NoData]
  /\ Return
  /\ UNCHANGED <<tasks, template, seen, world, faults>>

\* A slip: that Templates are not served any more is an error.
RemoveTemplateServed ==
  /\ pc = "removeTemplate"
  /\ IF served THEN Goto("listAll") /\ UNCHANGED <<plan, todo>> ELSE Return
  /\ template' = NoData
  /\ UNCHANGED <<tasks, workflow, seen, world, faults>>

\* removeTemplate: what the read does not show counts as removed; a read that
\* still shows what is gone makes the Delete fail.
RemoveTemplate ==
  /\ pc = "removeTemplate"
  /\ IF served /\ Read.template # NoData /\ template = NoData
     THEN Return /\ UNCHANGED template
     ELSE /\ template' = IF served /\ Read.template # NoData THEN NoData ELSE template
          /\ Goto("listAll") /\ UNCHANGED <<plan, todo>>
  /\ UNCHANGED <<tasks, workflow, seen, world, faults>>

\* removeWorkflow: the same for the Workflow.  What follows, up to the
\* finalizer, is MachineLifecycle's.
RemoveWorkflow ==
  /\ pc = "removeWorkflow"
  /\ IF Read.workflow # NoWorkflow /\ workflow = NoWorkflow
     THEN Return /\ UNCHANGED workflow
     ELSE /\ workflow' = IF Read.workflow # NoWorkflow THEN NoWorkflow ELSE workflow
          /\ Goto("gone") /\ UNCHANGED <<plan, todo>>
  /\ UNCHANGED <<tasks, template, seen, world, faults>>

-------------------------------------------------------------------------------
\* A call fails or the controller stops.
Fault ==
  /\ pc \notin {"idle", "gone"} /\ faults < MaxFaults
  /\ faults' = faults + 1
  /\ Return
  /\ UNCHANGED <<store, seen, world>>

DeleteMachine ==
  /\ ~deleting
  /\ deleting' = TRUE
  /\ UNCHANGED <<setup, served, store, seen, pc, plan, todo, edits, faults>>

\* A user or an operator changes the template, the boot options or the Hardware.
EditSetup ==
  /\ edits < MaxEdits
  /\ edits' = edits + 1
  /\ setup' \in Setups \ {setup}
  /\ UNCHANGED <<served, deleting, store, seen, pc, plan, todo, faults>>

\* Tinkerbell drops the Template CRD, and the Templates with it.
StopServing ==
  /\ served
  /\ served' = FALSE /\ template' = NoData
  /\ UNCHANGED <<setup, deleting, tasks, workflow, seen, pc, plan, todo, edits, faults>>

\* Tinkerbell translates somebody's Template into a Task of the same name.
OtherTask(n) ==
  /\ pc \in Intrusions
  /\ tasks[n] = NoTask
  /\ tasks' = [tasks EXCEPT ![n] = [owner |-> "other", data |-> NoData]]
  /\ UNCHANGED <<template, workflow, seen, world, pc, plan, todo, faults>>

Worker ==
  \/ Begin \/ GetWorkflow \/ GetTemplate \/ GetData \/ CheckTasks \/ EnsureTasks
  \/ CreateTemplate \/ ListTasks \/ DeleteTasks \/ CreateWorkflow
  \/ RemoveTemplate \/ RemoveWorkflow

WorkflowNext ==
  \/ Worker \/ Fault \/ DeleteMachine \/ EditSetup \/ StopServing
  \/ \E n \in TaskNames : OtherTask(n)

WorkflowSpec == WorkflowInit /\ [][WorkflowNext]_vars

\* An attempt that does not get through ends with an error, which puts the
\* machine back into the work queue; a deletion and a restart put it there too.
FairWorkflowSpec == WorkflowSpec /\ WF_vars(Worker)

-------------------------------------------------------------------------------
(* Properties *)

\* Every variable holds values of its kind, and a worker that goes through
\* Tasks has a content that converts to them.
WorkflowTypeOK ==
  /\ setup \in Setups
  /\ {served, deleting} \subseteq BOOLEAN
  /\ Now \in Store /\ seen \in Store
  /\ pc \in Steps
  /\ plan \in WorkflowRec
  /\ todo \subseteq TaskNames
  /\ edits \in 0..MaxEdits /\ faults \in 0..MaxFaults
  /\ plan.form = "native" => plan.data \in Convertible
  /\ pc \in {"checkTasks", "ensureTasks"} => plan.form = "native"
  /\ pc = "createTemplate" => plan.data \in Data

\* A Workflow that runs Tasks finds all of them, its machine's own, and all
\* made from the same content: also when earlier attempts were cut short and
\* the template has changed between them (ensureTasks).
NativeWorkflowHasItsTasks ==
  workflow.form = "native" /\ ~deleting
    => \A n \in Needs[workflow.data] :
         tasks[n] = [owner |-> "machine", data |-> workflow.data]

\* A machine has a Workflow in one form: beside one that runs Tasks there is
\* no Template and no other Task of its own, beside one in compatibility mode
\* there is its Template and no Task of its own (removeTasks, templateExists).
OneFormOfWorkflow ==
  ~deleting =>
    /\ workflow.form = "native" => template = NoData /\ Own(tasks) = Needs[workflow.data]
    /\ workflow.form = "compatibility" => Own(tasks) = {} /\ (served => template # NoData)

\* Nothing CAPT does touches a Task of another owner, whose name the machine's
\* Tasks may need (taskConflict).
OthersTasksAreLeftAlone ==
  [][\A n \in TaskNames : tasks[n].owner = "other" => tasks'[n] = tasks[n]]_vars

\* When the deletion of the machine goes on to its Hardware nothing of the
\* machine is left that could run on it: "removeWorkflow makes sure workflow
\* for TinkerbellMachine has been cleaned up."
NothingIsLeftBehind ==
  pc = "gone" => workflow = NoWorkflow /\ Own(tasks) = {} /\ template = NoData

\* The setup is one a Workflow can be made of.
Usable ==
  /\ setup.boot # "invalid" /\ TemplateData # NoData
  /\ \/ served
     \/ /\ Resolved \in Convertible /\ setup.boot # "templated"
        /\ \A n \in Needs[Resolved] : tasks[n].owner # "other"

\* Whatever earlier attempts have left, a machine whose setup can be used gets
\* its Workflow.
WorkflowIsCreated ==
  workflow = NoWorkflow /\ Usable /\ ~deleting
    ~> workflow # NoWorkflow \/ ~Usable \/ deleting

\* Whatever attempts have left, the deletion gets past it.
RemovalEnds == deleting ~> pc = "gone"
===============================================================================
