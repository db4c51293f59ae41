------------------------ MODULE WorkflowCreationProofs ------------------------
(***************************************************************************)
(* In external mode a Workflow has all of its Tasks and nothing beside     *)
(* them, its deletion leaves nothing of the machine behind, and no Task of *)
(* another owner is touched: for every set of contents and Tasks, and      *)
(* however often attempts are cut short.                                   *)
(*                                                                         *)
(* Of all theorems but the one on types two things are assumed, and both   *)
(* are needed: reads are not behind (workflow_left_behind.cfg shows what   *)
(* becomes of a removal that reads an old cache), and no Task of another   *)
(* owner appears between taskConflict's look at its name and ensureTasks'  *)
(* write.                                                                  *)
(***************************************************************************)
EXTENDS WorkflowCreation, TLAPS

External == ~CacheLags /\ Intrusions \cap {"checkTasks", "ensureTasks"} = {}

\* The form is chosen, the Workflow is not there yet.
Chosen == {"listTasks", "deleteTasks", "createWorkflow"}

\* The Task is the machine's own, made from the content of the plan.
MadeByPlan(n) == tasks[n] = [owner |-> "machine", data |-> plan.data]

\* A worker has a plan as long as it creates, and creates only what is not there.
PlanAgrees ==
  /\ pc \in {"idle", "gone", "getWorkflow", "getTemplate", "getData"} \cup Removing
       => plan = NoWorkflow
  /\ pc = "createTemplate" => plan.form = "compatibility"
  /\ pc \in Chosen => plan.form \in {"native", "compatibility"}
  /\ pc \in Creating \ {"getWorkflow"} => workflow = NoWorkflow
  /\ pc \in Removing \cup {"gone"} => deleting

\* ensureTasks has made the Tasks it has looked at, removeTasks has only the
\* machine's own to delete, and all that are not to be kept.
TasksAgree ==
  /\ \A n \in TaskNames : tasks[n].owner = "none" => tasks[n] = NoTask
  /\ pc \in {"checkTasks", "ensureTasks"} => todo \subseteq Needs[plan.data]
  /\ pc = "checkTasks" => \A n \in Needs[plan.data] \ todo : tasks[n].owner # "other"
  /\ pc = "ensureTasks" =>
       \A n \in Needs[plan.data] : tasks[n].owner # "other" /\ (n \notin todo => MadeByPlan(n))
  /\ pc \in Chosen /\ plan.form = "native" => \A n \in Needs[plan.data] : MadeByPlan(n)
  /\ pc \in {"deleteTasks", "deleteAll"} =>
       todo \subseteq Own(tasks) \ Keep /\ Own(tasks) \subseteq Keep \cup todo
  /\ pc = "createWorkflow" => Own(tasks) \subseteq Keep
  /\ pc \in {"removeWorkflow", "gone"} => Own(tasks) = {}

\* A machine that gets Tasks has no Template, one that gets none has one.
TemplateAgrees ==
  /\ ~served => template = NoData
  /\ pc \in {"getData", "checkTasks", "ensureTasks", "createTemplate"} => template = NoData
  /\ pc \in Chosen /\ plan.form = "native" => template = NoData
  /\ pc \in Chosen /\ plan.form = "compatibility" /\ served => template # NoData
  /\ pc \in {"listAll", "deleteAll", "removeWorkflow", "gone"} => template = NoData
  /\ pc = "gone" => workflow = NoWorkflow

WorkflowInv ==
  /\ WorkflowTypeOK /\ PlanAgrees /\ TasksAgree /\ TemplateAgrees
  /\ NativeWorkflowHasItsTasks /\ OneFormOfWorkflow

-------------------------------------------------------------------------------
(* What is read, and the cases of a step *)

\* In external mode what is read is what there is.
LEMMA ReadsNow ==
  ASSUME External
  PROVE  Read.tasks = tasks /\ Read.template = template /\ Read.workflow = workflow
BY DEF External, Read, Now

\* A content that is found is one, or there is none.
LEMMA DataType ==
  ASSUME WorkflowTypeOK
  PROVE  Resolved \in Data \cup {NoData, Empty} /\ TemplateData \in Data \cup {NoData}
<1>1. setup \in Setup
  BY SetupAssumption DEF WorkflowTypeOK
<1>2. \A l \in Levels : setup.source[l] \in Choice
  BY <1>1 DEF Setup
<1>3. {"machine", "hardware", "cluster"} \subseteq Levels
  BY DEF Levels
<1>4. \A c \in Choice : Fetched(c) \in Data \cup {NoData, Empty}
  BY DEF Choice, Fetched
<1>5. Resolved \in Data \cup {NoData, Empty}
  BY <1>2, <1>3, <1>4 DEF Resolved
<1> QED BY <1>5 DEF TemplateData

\* The fields of the types.
LEMMA Typed ==
  ASSUME WorkflowTypeOK
  PROVE  /\ tasks \in [TaskNames -> TaskRec] /\ template \in Data \cup {NoData}
         /\ workflow \in WorkflowRec /\ plan \in WorkflowRec
         /\ NoTask \in TaskRec /\ NoWorkflow \in WorkflowRec
BY DEF WorkflowTypeOK, Now, Store, NoTask, NoWorkflow, TaskRec, WorkflowRec

\* The names of a content's Tasks.
LEMMA NeedsType ==
  ASSUME NEW d \in Convertible
  PROVE  Needs[d] \subseteq TaskNames /\ d \in Data /\ d # NoData
BY DataAssumption

\* The cases of a step.
LEMMA StepCases ==
  ASSUME [WorkflowNext]_vars
  PROVE  \/ Begin \/ GetWorkflow \/ GetTemplate \/ GetData \/ CheckTasks \/ EnsureTasks
         \/ CreateTemplate \/ ListTasks \/ DeleteTasks \/ CreateWorkflow
         \/ RemoveTemplate \/ RemoveWorkflow
         \/ Fault \/ DeleteMachine \/ EditSetup \/ StopServing
         \/ \E n \in TaskNames : OtherTask(n)
         \/ UNCHANGED vars
BY DEF WorkflowNext, Worker

-------------------------------------------------------------------------------
(* The types *)

\* Every step keeps the types, also one that reads an old cache.
LEMMA TypesAreKept ==
  ASSUME WorkflowTypeOK, [WorkflowNext]_vars
  PROVE  WorkflowTypeOK'
<1>0. WorkflowTypeOK
  OBVIOUS
<1>t. /\ tasks \in [TaskNames -> TaskRec] /\ template \in Data \cup {NoData}
      /\ workflow \in WorkflowRec /\ plan \in WorkflowRec
      /\ NoTask \in TaskRec /\ NoWorkflow \in WorkflowRec
  BY <1>0, Typed
<1>r. Return => /\ pc' = "idle" /\ plan' = NoWorkflow /\ todo' = {}
  BY DEF Return, Goto
<1>n. NoWorkflow.form = "none"
  BY DEF NoWorkflow
\* The variables one by one.
<1>1. setup' \in Setups /\ {served, deleting}' \subseteq BOOLEAN
      /\ edits' \in 0..MaxEdits /\ faults' \in 0..MaxFaults
  <2>1. UNCHANGED <<setup, served, deleting, edits>>
        \/ DeleteMachine \/ EditSetup \/ StopServing
    BY StepCases DEF Begin, GetWorkflow, GetTemplate, GetData, CheckTasks, EnsureTasks,
       CreateTemplate, ListTasks, DeleteTasks, CreateWorkflow, RemoveTemplate, RemoveWorkflow,
       Fault, OtherTask, vars, world
  <2>2. UNCHANGED faults \/ Fault
    BY StepCases DEF Begin, GetWorkflow, GetTemplate, GetData, CheckTasks, EnsureTasks,
       CreateTemplate, ListTasks, DeleteTasks, CreateWorkflow, RemoveTemplate, RemoveWorkflow,
       DeleteMachine, EditSetup, StopServing, OtherTask, vars
  <2>3. faults' \in 0..MaxFaults
    BY <1>0, <2>2, WorkflowBounds DEF Fault, WorkflowTypeOK
  <2>4. edits' \in 0..MaxEdits /\ setup' \in Setups
    BY <1>0, <2>1, WorkflowBounds DEF DeleteMachine, EditSetup, StopServing, WorkflowTypeOK
  <2>5. {served, deleting}' \subseteq BOOLEAN
    BY <1>0, <2>1 DEF DeleteMachine, EditSetup, StopServing, WorkflowTypeOK
  <2> QED BY <2>3, <2>4, <2>5
<1>2. seen' \in Store
  <2>1. seen' \in {seen, Now}
    BY StepCases DEF Begin, GetWorkflow, GetTemplate, GetData, CheckTasks, EnsureTasks,
       CreateTemplate, ListTasks, DeleteTasks, CreateWorkflow, RemoveTemplate, RemoveWorkflow,
       Fault, DeleteMachine, EditSetup, StopServing, OtherTask, vars
  <2> QED BY <1>0, <2>1 DEF WorkflowTypeOK
<1>3. tasks' \in [TaskNames -> TaskRec]
  <2>1. CASE EnsureTasks
    <3>1. plan.data \in Data \cup {NoData}
      BY <1>t DEF WorkflowRec
    <3>2. tasks' = tasks \/ \E n \in todo :
            tasks' = [tasks EXCEPT ![n] =
                       [owner |-> IF @.owner = "none" THEN "machine" ELSE @.owner,
                        data |-> plan.data]]
      BY <2>1 DEF EnsureTasks
    <3> QED BY <1>0, <1>t, <3>1, <3>2 DEF TaskRec, WorkflowTypeOK
  <2>2. CASE DeleteTasks
    BY <1>t, <2>2 DEF DeleteTasks
  <2>3. ASSUME NEW n \in TaskNames, OtherTask(n)
        PROVE  tasks' \in [TaskNames -> TaskRec]
    BY <1>t, <2>3 DEF OtherTask, TaskRec
  <2>4. UNCHANGED tasks \/ EnsureTasks \/ DeleteTasks \/ \E n \in TaskNames : OtherTask(n)
    BY StepCases DEF Begin, GetWorkflow, GetTemplate, GetData, CheckTasks,
       CreateTemplate, ListTasks, CreateWorkflow, RemoveTemplate, RemoveWorkflow,
       Fault, DeleteMachine, EditSetup, StopServing, vars, store
  <2> QED BY <1>t, <2>1, <2>2, <2>3, <2>4
<1>4. template' \in Data \cup {NoData}
  <2>1. template' \in {template, NoData, plan.data}
    BY StepCases DEF Begin, GetWorkflow, GetTemplate, GetData, CheckTasks, EnsureTasks,
       CreateTemplate, ListTasks, DeleteTasks, CreateWorkflow, RemoveTemplate, RemoveWorkflow,
       Fault, DeleteMachine, EditSetup, StopServing, OtherTask, vars, store
  <2>2. plan.data \in Data \cup {NoData}
    BY <1>t DEF WorkflowRec
  <2> QED BY <1>t, <2>1, <2>2
<1>5. workflow' \in WorkflowRec
  <2>1. workflow' \in {workflow, NoWorkflow, plan, [form |-> "compatibility", data |-> NoData]}
    BY StepCases DEF Begin, GetWorkflow, GetTemplate, GetData, CheckTasks, EnsureTasks,
       CreateTemplate, ListTasks, DeleteTasks, CreateWorkflow, RemoveTemplate, RemoveWorkflow,
       Fault, DeleteMachine, EditSetup, StopServing, OtherTask, vars, store
  <2> QED BY <1>t, <2>1 DEF WorkflowRec
<1>6. UNCHANGED <<pc, plan, todo>> =>
        /\ pc' \in Steps /\ plan' \in WorkflowRec /\ todo' \subseteq TaskNames
        /\ plan'.form = "native" => plan'.data \in Convertible
        /\ pc' \in {"checkTasks", "ensureTasks"} => plan'.form = "native"
        /\ pc' = "createTemplate" => plan'.data \in Data
  BY <1>0 DEF WorkflowTypeOK
<1>7. Return =>
        /\ pc' \in Steps /\ plan' \in WorkflowRec /\ todo' \subseteq TaskNames
        /\ plan'.form = "native" => plan'.data \in Convertible
        /\ pc' \in {"checkTasks", "ensureTasks"} => plan'.form = "native"
        /\ pc' = "createTemplate" => plan'.data \in Data
  BY <1>t, <1>r, <1>n DEF Steps
<1>8. /\ pc' \in Steps /\ plan' \in WorkflowRec /\ todo' \subseteq TaskNames
      /\ plan'.form = "native" => plan'.data \in Convertible
      /\ pc' \in {"checkTasks", "ensureTasks"} => plan'.form = "native"
      /\ pc' = "createTemplate" => plan'.data \in Data
  <2> USE DEF Steps, Creating, Removing, Goto
  <2>0. /\ pc \in Steps /\ todo \subseteq TaskNames
        /\ plan.form = "native" => plan.data \in Convertible
        /\ pc \in {"checkTasks", "ensureTasks"} => plan.form = "native"
        /\ pc = "createTemplate" => plan.data \in Data
    BY <1>0 DEF WorkflowTypeOK
  <2>1. CASE Begin \/ GetWorkflow
    BY <1>t, <1>7, <2>0, <2>1 DEF Begin, GetWorkflow
  <2>2. CASE GetTemplate
    <3>1. [form |-> "compatibility", data |-> NoData] \in WorkflowRec
      BY DEF WorkflowRec
    <3> QED BY <1>t, <2>0, <2>2, <3>1 DEF GetTemplate
  <2>3. CASE GetData
    <3>1. CASE TemplateData # NoData /\ TemplateData \in Convertible
               /\ plan' = [form |-> "native", data |-> TemplateData]
               /\ todo' = Needs[TemplateData] /\ pc' = "checkTasks"
      BY <3>1, NeedsType DEF WorkflowRec
    <3>2. CASE TemplateData # NoData /\ UNCHANGED todo /\ pc' = "createTemplate"
               /\ plan' = [form |-> "compatibility", data |-> TemplateData]
      <4>1. TemplateData \in Data
        BY <1>0, <3>2, DataType
      <4> QED BY <2>0, <3>2, <4>1 DEF WorkflowRec
    <3> QED BY <1>7, <2>3, <3>1, <3>2 DEF GetData
  <2>4. CASE CheckTasks
    <3>1. plan.form = "native" /\ plan.data \in Convertible /\ plan.data \in Data
      BY <2>0, <2>4, NeedsType DEF CheckTasks
    <3>2. CASE todo' = Needs[plan.data] /\ pc' = "ensureTasks" /\ UNCHANGED plan
      BY <1>t, <2>0, <3>1, <3>2, NeedsType
    <3>3. CASE plan' = [plan EXCEPT !.form = "compatibility"] /\ todo' = {}
               /\ pc' = "createTemplate"
      BY <1>t, <2>0, <3>1, <3>3 DEF WorkflowRec
    <3>4. CASE todo' \subseteq todo /\ UNCHANGED <<pc, plan>>
      BY <1>t, <2>0, <3>4
    <3> QED BY <2>4, <3>2, <3>3, <3>4 DEF CheckTasks
  <2>5. CASE EnsureTasks \/ DeleteTasks
    <3>1. \/ Return
          \/ /\ plan' = plan /\ todo' \subseteq todo
             /\ pc' \in {pc, "listTasks", "removeWorkflow", "createWorkflow"}
      BY <2>5 DEF EnsureTasks, DeleteTasks
    <3> QED BY <1>t, <1>7, <2>0, <3>1
  <2>6. CASE ListTasks
    BY <1>t, <2>0, <2>6 DEF ListTasks, Own
  <2>7. CASE CreateTemplate \/ CreateWorkflow \/ RemoveTemplate \/ RemoveWorkflow \/ Fault
    <3>1. \/ Return
          \/ UNCHANGED <<plan, todo>> /\ pc' \in {"listTasks", "listAll", "gone"}
      BY <2>7 DEF CreateTemplate, CreateWorkflow, RemoveTemplate, RemoveWorkflow, Fault
    <3> QED BY <1>t, <1>7, <2>0, <3>1
  <2>8. CASE UNCHANGED <<pc, plan, todo>>
    BY <1>6, <2>8
  <2> QED BY <2>1, <2>2, <2>3, <2>4, <2>5, <2>6, <2>7, <2>8, StepCases
          DEF DeleteMachine, EditSetup, StopServing, OtherTask, vars
<1>9. Now' \in Store
  BY <1>3, <1>4, <1>5 DEF Now, Store
<1> QED BY <1>1, <1>2, <1>8, <1>9 DEF WorkflowTypeOK

-------------------------------------------------------------------------------
(* The invariant *)

\* An attempt that ends forgets its plan; a plan is made for a Workflow that is
\* not there.
LEMMA PlanKeepsAgreeing ==
  ASSUME External, WorkflowInv, [WorkflowNext]_vars
  PROVE  PlanAgrees'
<1>0. WorkflowTypeOK /\ PlanAgrees
  BY DEF WorkflowInv
<1>1. /\ Read.workflow = workflow
      /\ pc \in Steps
      /\ plan.form \in {"none", "native", "compatibility"}
      /\ pc \in {"checkTasks", "ensureTasks"} => plan.form = "native"
  BY <1>0, ReadsNow, Typed DEF WorkflowTypeOK, WorkflowRec
<1>2. NoWorkflow.form = "none"
  BY DEF NoWorkflow
<1> USE DEF PlanAgrees, Creating, Removing, Chosen, Goto
<1>3. CASE Begin \/ GetWorkflow \/ GetTemplate \/ GetData
  BY <1>0, <1>1, <1>2, <1>3 DEF Begin, GetWorkflow, GetTemplate, GetData, Return, store, world
<1>4. CASE CheckTasks
  <2>1. plan \in WorkflowRec
    BY <1>0, Typed
  <2>2. [plan EXCEPT !.form = "compatibility"].form = "compatibility"
    BY <2>1 DEF WorkflowRec
  <2> QED BY <1>0, <1>1, <1>4, <2>2 DEF CheckTasks, store, world
<1>5. CASE EnsureTasks \/ DeleteTasks
  BY <1>0, <1>1, <1>5 DEF EnsureTasks, DeleteTasks, Return, world
<1>6. CASE CreateTemplate \/ ListTasks
  BY <1>0, <1>1, <1>6 DEF CreateTemplate, ListTasks, Return, store, world
<1>7. CASE CreateWorkflow \/ RemoveTemplate \/ RemoveWorkflow
  BY <1>0, <1>1, <1>7 DEF CreateWorkflow, RemoveTemplate, RemoveWorkflow, Return, world
<1>8. CASE Fault
  BY <1>0, <1>8 DEF Fault, Return, store, world
<1>9. CASE DeleteMachine \/ EditSetup \/ StopServing \/ UNCHANGED vars
  BY <1>0, <1>9 DEF DeleteMachine, EditSetup, StopServing, vars, store
<1>10. ASSUME NEW n \in TaskNames, OtherTask(n)
       PROVE  PlanAgrees'
  BY <1>0, <1>10 DEF OtherTask, world
<1> QED BY <1>3, <1>4, <1>5, <1>6, <1>7, <1>8, <1>9, <1>10, StepCases

\* templateExists, createTemplate and removeTemplate: beside Tasks there is no
\* Template, without them there is one.
LEMMA TemplateKeepsAgreeing ==
  ASSUME External, WorkflowInv, [WorkflowNext]_vars
  PROVE  TemplateAgrees'
<1>0. WorkflowTypeOK /\ PlanAgrees /\ TemplateAgrees
  BY DEF WorkflowInv
<1>1. /\ Read.workflow = workflow /\ Read.template = template
      /\ pc \in {"checkTasks", "ensureTasks"} => plan.form = "native"
      /\ pc = "createTemplate" => plan.data # NoData /\ plan.form = "compatibility"
  BY <1>0, ReadsNow, DataAssumption DEF WorkflowTypeOK, PlanAgrees
<1>2. /\ pc \in {"idle", "getWorkflow", "getTemplate", "getData"} \cup Removing => plan = NoWorkflow
      /\ NoWorkflow.form = "none"
  BY <1>0 DEF NoWorkflow, PlanAgrees
<1> USE DEF TemplateAgrees, Chosen, Removing, Goto
<1>3. CASE Begin \/ GetWorkflow \/ GetTemplate \/ GetData
  BY <1>0, <1>1, <1>2, <1>3 DEF Begin, GetWorkflow, GetTemplate, GetData, Return, store, world
<1>4. CASE CheckTasks
  BY <1>0, <1>1, <1>4 DEF CheckTasks, store, world
<1>5. CASE EnsureTasks \/ DeleteTasks
  BY <1>0, <1>1, <1>2, <1>5 DEF EnsureTasks, DeleteTasks, Return, world
<1>6. CASE CreateTemplate \/ ListTasks
  BY <1>0, <1>1, <1>2, <1>6 DEF CreateTemplate, ListTasks, Return, store, world
<1>7. CASE CreateWorkflow \/ RemoveTemplate \/ RemoveWorkflow
  BY <1>0, <1>1, <1>2, <1>7 DEF CreateWorkflow, RemoveTemplate, RemoveWorkflow, Return, world
<1>8. CASE Fault
  BY <1>0, <1>8 DEF Fault, Return, store, world
<1>9. CASE DeleteMachine \/ EditSetup \/ StopServing \/ UNCHANGED vars
  BY <1>0, <1>9 DEF DeleteMachine, EditSetup, StopServing, vars, store
<1>10. ASSUME NEW n \in TaskNames, OtherTask(n)
       PROVE  TemplateAgrees'
  BY <1>0, <1>10 DEF OtherTask, world
<1> QED BY <1>3, <1>4, <1>5, <1>6, <1>7, <1>8, <1>9, <1>10, StepCases

\* The Tasks that the machine has once one is created, or one is gone.
LEMMA OwnAfterWrite ==
  ASSUME WorkflowTypeOK, NEW n \in TaskNames, NEW t \in TaskRec,
         tasks' = [tasks EXCEPT ![n] = t]
  PROVE  /\ \A o \in TaskNames : o # n => tasks'[o] = tasks[o]
         /\ tasks'[n] = t
         /\ t.owner = "machine" => Own(tasks') = Own(tasks) \cup {n}
         /\ t.owner # "machine" => Own(tasks') = Own(tasks) \ {n}
BY Typed DEF Own

\* removeTasks lists what is not needed, ensureTasks makes what is.
LEMMA TasksKeepAgreeing ==
  ASSUME External, WorkflowInv, [WorkflowNext]_vars
  PROVE  TasksAgree'
<1>0. WorkflowTypeOK /\ PlanAgrees /\ TasksAgree
  BY DEF WorkflowInv
<1>t. /\ tasks \in [TaskNames -> TaskRec] /\ plan \in WorkflowRec
      /\ NoTask.owner = "none" /\ NoTask.data = NoData /\ NoTask \in TaskRec
      /\ NoWorkflow.form = "none"
      /\ todo \subseteq TaskNames
      /\ Read.tasks = tasks
      /\ pc \in Steps
  BY <1>0, Typed, ReadsNow DEF WorkflowTypeOK, NoTask, NoWorkflow
<1>f. /\ pc \in {"checkTasks", "ensureTasks"} => plan.form = "native"
      /\ plan.form = "native" => plan.data \in Convertible
      /\ pc \in {"idle", "gone", "getWorkflow", "getTemplate", "getData"} \cup Removing
           => plan = NoWorkflow
      /\ pc = "createTemplate" => plan.form = "compatibility"
  BY <1>0 DEF WorkflowTypeOK, PlanAgrees
\* An attempt ends.
<1>r. ASSUME Return, UNCHANGED tasks
      PROVE  TasksAgree'
  BY <1>0, <1>r DEF Return, Goto, TasksAgree, Chosen
\* Nothing that matters changes.
<1>u. ASSUME UNCHANGED <<tasks, pc, plan, todo>>
      PROVE  TasksAgree'
  <2>1. Own(tasks)' = Own(tasks) /\ Keep' = Keep /\ \A n : MadeByPlan(n)' = MadeByPlan(n)
    BY <1>u DEF Own, Keep, MadeByPlan
  <2> QED BY <1>0, <1>u, <2>1 DEF TasksAgree
<1>1. CASE Begin \/ GetWorkflow \/ GetTemplate
  <2>1. \/ /\ UNCHANGED <<tasks, todo>>
           /\ pc' \in {"removeTemplate", "getWorkflow", "getTemplate", "getData", "listTasks"}
           /\ pc' = "listTasks" => plan'.form = "compatibility"
        \/ Return /\ UNCHANGED tasks
    BY <1>1 DEF Begin, GetWorkflow, GetTemplate, Goto, store
  <2> QED BY <1>0, <1>r, <2>1 DEF TasksAgree, Chosen
<1>2. CASE GetData
  <2>1. tasks' = tasks
    BY <1>2 DEF GetData, store
  <2>2. CASE TemplateData # NoData /\ pc' = "checkTasks"
             /\ plan' = [form |-> "native", data |-> TemplateData]
             /\ todo' = Needs[TemplateData]
    BY <1>0, <2>1, <2>2 DEF TasksAgree, Chosen
  <2>3. CASE pc' = "createTemplate"
    BY <1>0, <2>1, <2>3 DEF TasksAgree, Chosen
  <2> QED BY <1>2, <1>r, <2>1, <2>2, <2>3 DEF GetData, Goto
<1>3. CASE CheckTasks
  <2>1. tasks' = tasks /\ pc = "checkTasks"
    BY <1>3 DEF CheckTasks, store
  <2>2. todo \subseteq Needs[plan.data] /\ \A n \in Needs[plan.data] \ todo : tasks[n].owner # "other"
    BY <1>0, <2>1 DEF TasksAgree
  <2>3. CASE todo = {} /\ todo' = Needs[plan.data] /\ pc' = "ensureTasks" /\ plan' = plan
    BY <1>0, <2>1, <2>2, <2>3 DEF TasksAgree, Chosen
  <2>4. CASE pc' = "createTemplate"
    BY <1>0, <2>1, <2>4 DEF TasksAgree, Chosen
  <2>5. ASSUME NEW n \in todo, tasks[n].owner # "other", todo' = todo \ {n}, UNCHANGED <<pc, plan>>
        PROVE  TasksAgree'
    BY <1>0, <2>1, <2>2, <2>5 DEF TasksAgree, Chosen
  <2> QED BY <1>3, <1>t, <2>3, <2>4, <2>5 DEF CheckTasks, Goto
<1>4. CASE EnsureTasks
  <2>1. /\ pc = "ensureTasks" /\ plan.form = "native" /\ plan.data \in Convertible
        /\ plan.data # NoData /\ plan.data \in Data
        /\ todo \subseteq Needs[plan.data] /\ Needs[plan.data] \subseteq TaskNames
        /\ \A n \in Needs[plan.data] :
              tasks[n].owner # "other" /\ (n \notin todo => MadeByPlan(n))
    BY <1>0, <1>4, <1>f, NeedsType DEF EnsureTasks, TasksAgree
  <2>2. CASE todo = {} /\ pc' = "listTasks" /\ UNCHANGED <<tasks, plan, todo>>
    BY <1>0, <2>1, <2>2 DEF TasksAgree, Chosen, MadeByPlan
  <2>3. ASSUME NEW n \in todo, todo' = todo \ {n}, UNCHANGED <<pc, plan>>,
               tasks' = IF tasks[n].data = plan.data THEN tasks
                        ELSE [tasks EXCEPT ![n] =
                                [owner |-> IF @.owner = "none" THEN "machine" ELSE @.owner,
                                 data |-> plan.data]]
        PROVE  TasksAgree'
    <3>1. n \in TaskNames /\ n \in Needs[plan.data]
          /\ tasks[n] \in TaskRec /\ tasks[n].owner # "other"
      BY <1>t, <2>1, <2>3
    <3>2. tasks[n].data = plan.data => tasks[n].owner = "machine"
      BY <1>0, <1>t, <2>1, <3>1 DEF TasksAgree, TaskRec
    <3>3. tasks'[n] = [owner |-> "machine", data |-> plan.data]
          /\ \A o \in TaskNames : o # n => tasks'[o] = tasks[o]
      <4>1. CASE tasks[n].data = plan.data
        BY <2>3, <3>1, <3>2, <4>1 DEF TaskRec
      <4>2. CASE tasks[n].data # plan.data
        BY <1>t, <2>3, <3>1, <4>2 DEF TaskRec
      <4> QED BY <4>1, <4>2
    <3>4. \A o \in TaskNames : tasks'[o].owner = "none" => tasks'[o] = NoTask
      BY <1>0, <3>3 DEF TasksAgree
    <3>5. \A o \in Needs[plan.data] :
            tasks'[o].owner # "other" /\ (o \notin todo' => MadeByPlan(o)')
      BY <2>1, <2>3, <3>3 DEF MadeByPlan
    <3> QED BY <2>1, <2>3, <3>4, <3>5 DEF TasksAgree, Chosen
  <2> QED BY <1>4, <1>t, <1>r, <2>2, <2>3 DEF EnsureTasks, Goto
<1>5. CASE CreateTemplate
  <2>1. UNCHANGED tasks /\ (Return \/ (pc' = "listTasks" /\ UNCHANGED <<plan, todo>>))
    BY <1>5 DEF CreateTemplate, Goto
  <2>2. plan.form = "compatibility"
    BY <1>5, <1>f DEF CreateTemplate
  <2> QED BY <1>0, <1>r, <2>1, <2>2 DEF TasksAgree, Chosen
<1>6. CASE ListTasks
  <2>1. /\ UNCHANGED <<tasks, plan>> /\ todo' = Own(tasks) \ Keep
        /\ pc \in {"listTasks", "listAll"}
        /\ pc' = IF pc = "listAll" THEN "deleteAll" ELSE "deleteTasks"
    BY <1>6, <1>t DEF ListTasks, Goto, store
  <2>2. Own(tasks)' = Own(tasks) /\ Keep' = Keep /\ \A n : MadeByPlan(n)' = MadeByPlan(n)
    BY <2>1 DEF Own, Keep, MadeByPlan
  <2>3. pc' \in Chosen => pc \in Chosen
    BY <2>1 DEF Chosen
  <2> QED BY <1>0, <2>1, <2>2, <2>3 DEF TasksAgree
<1>7. CASE DeleteTasks
  <2>1. /\ plan' = plan /\ pc \in {"deleteTasks", "deleteAll"}
        /\ todo \subseteq Own(tasks) \ Keep /\ Own(tasks) \subseteq Keep \cup todo
        /\ pc = "deleteTasks" /\ plan.form = "native" => \A n \in Needs[plan.data] : MadeByPlan(n)
    BY <1>0, <1>7 DEF DeleteTasks, TasksAgree, Chosen
  <2>2. pc = "deleteAll" => Keep = {}
    BY <1>f, <1>t DEF Keep, Removing
  <2>k. Keep' = Keep
    BY <2>1 DEF Keep
  <2>3. CASE todo = {} /\ UNCHANGED <<tasks, todo>>
             /\ pc' = IF pc = "deleteAll" THEN "removeWorkflow" ELSE "createWorkflow"
    <3>1. Own(tasks)' = Own(tasks) /\ \A n : MadeByPlan(n)' = MadeByPlan(n)
      BY <2>1, <2>3 DEF Own, MadeByPlan
    <3> QED BY <1>0, <2>1, <2>2, <2>3, <2>k, <3>1 DEF TasksAgree, Chosen
  <2>4. ASSUME NEW n \in todo, tasks' = [tasks EXCEPT ![n] = NoTask], todo' = todo \ {n}, pc' = pc
        PROVE  TasksAgree'
    <3>1. n \in TaskNames /\ n \notin Keep
      BY <1>t, <2>1, <2>4
    <3>2. /\ \A o \in TaskNames : o # n => tasks'[o] = tasks[o]
          /\ tasks'[n] = NoTask
          /\ Own(tasks') = Own(tasks) \ {n}
      BY <1>0, <1>t, <2>4, <3>1, OwnAfterWrite
    <3>3. Own(tasks)' = Own(tasks')
      BY DEF Own
    <3>4. todo' \subseteq Own(tasks)' \ Keep' /\ Own(tasks)' \subseteq Keep' \cup todo'
      BY <2>1, <2>4, <2>k, <3>2, <3>3
    <3>5. pc = "deleteTasks" /\ plan.form = "native" => \A o \in Needs[plan.data] : MadeByPlan(o)'
      <4>1. plan.form = "native" => n \notin Needs[plan.data] /\ Needs[plan.data] \subseteq TaskNames
        BY <1>f, <3>1, NeedsType DEF Keep
      <4> QED BY <2>1, <3>2, <4>1 DEF MadeByPlan
    <3>6. \A o \in TaskNames : tasks'[o].owner = "none" => tasks'[o] = NoTask
      BY <1>0, <3>2 DEF TasksAgree
    <3> QED BY <2>1, <2>4, <3>4, <3>5, <3>6 DEF TasksAgree, Chosen
  <2> QED BY <1>7, <2>3, <2>4 DEF DeleteTasks, Goto
<1>8. CASE CreateWorkflow \/ RemoveTemplate \/ RemoveWorkflow \/ Fault
  <2>1. \/ Return /\ UNCHANGED tasks
        \/ UNCHANGED tasks /\ pc' = "listAll"
        \/ UNCHANGED tasks /\ pc = "removeWorkflow" /\ pc' = "gone"
    BY <1>8 DEF CreateWorkflow, RemoveTemplate, RemoveWorkflow, Fault, Goto, store
  <2>2. UNCHANGED tasks => Own(tasks)' = Own(tasks)
    BY DEF Own
  <2> QED BY <1>0, <1>r, <2>1, <2>2 DEF TasksAgree, Chosen
<1>9. ASSUME NEW n \in TaskNames, OtherTask(n)
      PROVE  TasksAgree'
  <2>1. /\ pc \notin {"checkTasks", "ensureTasks"} /\ UNCHANGED <<pc, plan, todo>>
        /\ tasks[n] = NoTask
        /\ tasks' = [tasks EXCEPT ![n] = [owner |-> "other", data |-> NoData]]
    BY <1>9 DEF OtherTask, External
  <2>2. [owner |-> "other", data |-> NoData] \in TaskRec
    BY DEF TaskRec
  <2>3. /\ \A o \in TaskNames : o # n => tasks'[o] = tasks[o]
        /\ tasks'[n].owner = "other"
        /\ Own(tasks') = Own(tasks) \ {n}
    <3>1. PICK t \in TaskRec : t.owner = "other" /\ tasks' = [tasks EXCEPT ![n] = t]
      BY <2>1, <2>2
    <3> QED BY <1>0, <3>1, OwnAfterWrite
  <2>4. n \notin Own(tasks)
    BY <1>t, <2>1 DEF Own
  <2>5. Own(tasks)' = Own(tasks) /\ Keep' = Keep
    BY <2>1, <2>3, <2>4 DEF Own, Keep
  <2>6. pc \in Chosen /\ plan.form = "native" => \A o \in Needs[plan.data] : MadeByPlan(o)'
    <3>1. ASSUME pc \in Chosen, plan.form = "native", NEW o \in Needs[plan.data]
          PROVE  MadeByPlan(o)'
      <4>1. MadeByPlan(o) /\ o \in TaskNames
        BY <1>0, <1>f, <3>1, NeedsType DEF TasksAgree
      <4>2. o # n
        BY <1>t, <2>1, <4>1 DEF MadeByPlan
      <4> QED BY <2>1, <2>3, <4>1, <4>2 DEF MadeByPlan
    <3> QED BY <3>1
  <2>7. \A o \in TaskNames : tasks'[o].owner = "none" => tasks'[o] = NoTask
    BY <1>0, <2>3 DEF TasksAgree
  <2> QED BY <1>0, <2>1, <2>5, <2>6, <2>7 DEF TasksAgree
<1> QED BY <1>u, <1>1, <1>2, <1>3, <1>4, <1>5, <1>6, <1>7, <1>8, <1>9, StepCases
        DEF DeleteMachine, EditSetup, StopServing, vars, store

\* The steps that change what a Workflow needs: those of an attempt that finds
\* none, of a deletion, createWorkflow, and what others do.
LEMMA NeedsOfAWorkflow ==
  ASSUME External, WorkflowInv, [WorkflowNext]_vars
  PROVE  \/ UNCHANGED <<store, served>> /\ (deleting => deleting')
         \/ workflow' = NoWorkflow
         \/ deleting'
         \/ CreateWorkflow \/ StopServing \/ \E n \in TaskNames : OtherTask(n)
<1>1. PlanAgrees
  BY DEF WorkflowInv
<1>2. UNCHANGED <<store, served, deleting>>
      \/ EnsureTasks \/ CreateTemplate \/ DeleteTasks \/ RemoveTemplate \/ RemoveWorkflow
      \/ DeleteMachine \/ CreateWorkflow \/ StopServing \/ \E n \in TaskNames : OtherTask(n)
  BY StepCases DEF Begin, GetWorkflow, GetTemplate, GetData, CheckTasks, ListTasks, Fault,
     EditSetup, vars, store, world
<1>3. EnsureTasks \/ CreateTemplate => workflow' = NoWorkflow
  BY <1>1 DEF EnsureTasks, CreateTemplate, PlanAgrees, Creating
<1>4. DeleteTasks => workflow' = NoWorkflow \/ deleting'
  BY <1>1 DEF DeleteTasks, PlanAgrees, Creating, Removing, world
<1>5. RemoveTemplate \/ RemoveWorkflow => deleting'
  BY <1>1 DEF RemoveTemplate, RemoveWorkflow, PlanAgrees, Removing, world
<1>6. DeleteMachine => deleting'
  BY DEF DeleteMachine
<1> QED BY <1>2, <1>3, <1>4, <1>5, <1>6

\* createWorkflow is the last call: what its Workflow runs has been made, and
\* what it does not run is gone.
LEMMA CreatedWorkflowIsComplete ==
  ASSUME External, WorkflowInv, CreateWorkflow, workflow = NoWorkflow
  PROVE  NativeWorkflowHasItsTasks' /\ OneFormOfWorkflow'
<1>0. WorkflowTypeOK /\ PlanAgrees /\ TasksAgree /\ TemplateAgrees
  BY DEF WorkflowInv
<1>1. /\ pc = "createWorkflow" /\ UNCHANGED <<tasks, template, served, deleting>>
      /\ workflow' = IF plan.form = "native" THEN plan
                     ELSE [form |-> "compatibility", data |-> NoData]
  BY DEF CreateWorkflow, world
<1>2. /\ plan.form \in {"native", "compatibility"}
      /\ plan.form = "native" => \A n \in Needs[plan.data] : MadeByPlan(n)
      /\ Own(tasks) \subseteq Keep
      /\ plan.form = "native" => template = NoData
      /\ plan.form = "compatibility" /\ served => template # NoData
  BY <1>0, <1>1 DEF PlanAgrees, TasksAgree, TemplateAgrees, Chosen
<1>3. Own(tasks)' = Own(tasks)
  BY <1>1 DEF Own
<1>4. CASE plan.form = "native"
  <2>1. Needs[plan.data] \subseteq TaskNames
    BY <1>0, <1>4, NeedsType DEF WorkflowTypeOK
  <2>2. Own(tasks) = Needs[plan.data]
    BY <1>2, <1>4, <2>1 DEF Keep, Own, MadeByPlan
  <2> QED BY <1>1, <1>2, <1>3, <1>4, <2>2
          DEF NativeWorkflowHasItsTasks, OneFormOfWorkflow, MadeByPlan
<1>5. CASE plan.form = "compatibility"
  <2>1. workflow'.form = "compatibility"
    BY <1>1, <1>5
  <2> QED BY <1>1, <1>2, <1>3, <1>5, <2>1
          DEF NativeWorkflowHasItsTasks, OneFormOfWorkflow, Keep
<1> QED BY <1>2, <1>4, <1>5

\* A Workflow keeps what it was created with until the machine is deleted.
LEMMA WorkflowStaysComplete ==
  ASSUME External, WorkflowInv, [WorkflowNext]_vars
  PROVE  NativeWorkflowHasItsTasks' /\ OneFormOfWorkflow'
<1>0. /\ WorkflowTypeOK /\ TemplateAgrees
      /\ NativeWorkflowHasItsTasks /\ OneFormOfWorkflow
  BY DEF WorkflowInv
<1>1. NoWorkflow.form = "none" /\ NoTask.owner = "none" /\ NoTask.data = NoData
  BY DEF NoWorkflow, NoTask
<1>2. CASE UNCHANGED <<store, served>> /\ (deleting => deleting')
  <2>1. Own(tasks)' = Own(tasks)
    BY <1>2 DEF Own, store
  <2> QED BY <1>0, <1>2, <2>1 DEF NativeWorkflowHasItsTasks, OneFormOfWorkflow, store
<1>3. CASE workflow' = NoWorkflow \/ deleting'
  BY <1>1, <1>3 DEF NativeWorkflowHasItsTasks, OneFormOfWorkflow
<1>4. CASE CreateWorkflow
  <2>1. CASE workflow # NoWorkflow
    <3>1. UNCHANGED <<store, served, deleting>> /\ Own(tasks)' = Own(tasks)
      BY <1>4, <2>1 DEF CreateWorkflow, store, world, Own
    <3> QED BY <1>0, <3>1 DEF NativeWorkflowHasItsTasks, OneFormOfWorkflow, store
  <2> QED BY <1>4, <2>1, CreatedWorkflowIsComplete
<1>5. CASE StopServing
  <2>1. UNCHANGED <<tasks, workflow, deleting>> /\ ~served' /\ template' = NoData
    BY <1>5 DEF StopServing
  <2>2. Own(tasks)' = Own(tasks)
    BY <2>1 DEF Own
  <2> QED BY <1>0, <2>1, <2>2 DEF NativeWorkflowHasItsTasks, OneFormOfWorkflow
<1>6. ASSUME NEW n \in TaskNames, OtherTask(n)
      PROVE  NativeWorkflowHasItsTasks' /\ OneFormOfWorkflow'
  <2>1. /\ UNCHANGED <<template, workflow, served, deleting>>
        /\ tasks[n] = NoTask
        /\ tasks' = [tasks EXCEPT ![n] = [owner |-> "other", data |-> NoData]]
    BY <1>6 DEF OtherTask, world
  <2>2. /\ \A o \in TaskNames : o # n => tasks'[o] = tasks[o]
        /\ Own(tasks') = Own(tasks) \ {n}
    <3>1. PICK t \in TaskRec : t.owner = "other" /\ tasks' = [tasks EXCEPT ![n] = t]
      BY <2>1 DEF TaskRec
    <3> QED BY <1>0, <3>1, OwnAfterWrite
  <2>3. Own(tasks)' = Own(tasks)
    BY <1>1, <2>1, <2>2 DEF Own
  <2>4. NativeWorkflowHasItsTasks'
    <3>1. ASSUME workflow.form = "native", ~deleting, NEW o \in Needs[workflow.data]
          PROVE  tasks'[o] = [owner |-> "machine", data |-> workflow.data]
      <4>1. tasks[o] = [owner |-> "machine", data |-> workflow.data]
        BY <1>0, <3>1 DEF NativeWorkflowHasItsTasks
      <4>2. Own(tasks) = Needs[workflow.data]
        BY <1>0, <3>1 DEF OneFormOfWorkflow
      <4>3. o \in TaskNames /\ o # n
        BY <1>1, <2>1, <3>1, <4>1, <4>2 DEF Own
      <4> QED BY <2>2, <4>1, <4>3
    <3> QED BY <2>1, <3>1 DEF NativeWorkflowHasItsTasks
  <2> QED BY <1>0, <2>1, <2>3, <2>4 DEF OneFormOfWorkflow
<1> QED BY <1>2, <1>3, <1>4, <1>5, <1>6, NeedsOfAWorkflow

\* A machine without a Workflow satisfies the invariant.
LEMMA InitEstablishesWorkflowInv ==
  WorkflowInit => WorkflowInv
<1> SUFFICES ASSUME WorkflowInit
             PROVE  WorkflowInv
  OBVIOUS
<1> USE DEF WorkflowInit
<1>1. NoWorkflow.form = "none" /\ NoTask.owner = "none" /\ NoTask \in TaskRec
      /\ NoWorkflow \in WorkflowRec
  BY DEF NoWorkflow, NoTask, TaskRec, WorkflowRec
<1>2. Now \in Store
  BY <1>1 DEF Now, Store
<1>3. WorkflowTypeOK
  <2>1. /\ setup \in Setups /\ {served, deleting} \subseteq BOOLEAN
        /\ pc \in Steps /\ plan \in WorkflowRec /\ todo \subseteq TaskNames
        /\ plan.form # "native" /\ pc \notin {"checkTasks", "ensureTasks", "createTemplate"}
    BY <1>1 DEF Steps
  <2>2. edits \in 0..MaxEdits /\ faults \in 0..MaxFaults
    BY WorkflowBounds
  <2>3. seen \in Store
    BY <1>2
  <2> HIDE DEF WorkflowInit
  <2> QED BY <1>2, <2>1, <2>2, <2>3 DEF WorkflowTypeOK
<1>4. PlanAgrees /\ TemplateAgrees
  BY <1>1 DEF PlanAgrees, TemplateAgrees, Chosen, Creating, Removing
<1>5. TasksAgree
  BY <1>1 DEF TasksAgree, Chosen
<1> QED BY <1>1, <1>3, <1>4, <1>5
        DEF WorkflowInv, NativeWorkflowHasItsTasks, OneFormOfWorkflow

\* Every step keeps the invariant.
LEMMA StepKeepsWorkflowInv ==
  ASSUME External, WorkflowInv, [WorkflowNext]_vars
  PROVE  WorkflowInv'
<1>1. WorkflowTypeOK'
  BY TypesAreKept DEF WorkflowInv
<1>2. PlanAgrees' /\ TasksAgree' /\ TemplateAgrees'
  BY PlanKeepsAgreeing, TasksKeepAgreeing, TemplateKeepsAgreeing
<1>3. NativeWorkflowHasItsTasks' /\ OneFormOfWorkflow'
  BY WorkflowStaysComplete
<1> QED BY <1>1, <1>2, <1>3 DEF WorkflowInv

-------------------------------------------------------------------------------
(* The theorems *)

\* In every configuration, with old caches too, the variables have their types.
THEOREM WorkflowTypesCorrect ==
  WorkflowSpec => []WorkflowTypeOK
<1>1. WorkflowInit => WorkflowTypeOK
  BY InitEstablishesWorkflowInv DEF WorkflowInv
<1>2. WorkflowTypeOK /\ [WorkflowNext]_vars => WorkflowTypeOK'
  BY TypesAreKept
<1> QED BY <1>1, <1>2, PTL DEF WorkflowSpec

\* The invariant holds in every state of an external configuration.
THEOREM WorkflowCorrect ==
  ASSUME External
  PROVE  WorkflowSpec => []WorkflowInv
<1>1. WorkflowInit => WorkflowInv
  BY InitEstablishesWorkflowInv
<1>2. WorkflowInv /\ [WorkflowNext]_vars => WorkflowInv'
  BY StepKeepsWorkflowInv
<1> QED BY <1>1, <1>2, PTL DEF WorkflowSpec

\* A Workflow that runs Tasks finds all of them, however many attempts were cut
\* short and however often the template has changed between them.
THEOREM WorkflowHasItsTasks ==
  ASSUME External
  PROVE  WorkflowSpec => []NativeWorkflowHasItsTasks
<1>1. WorkflowInv => NativeWorkflowHasItsTasks
  BY DEF WorkflowInv
<1> QED BY <1>1, WorkflowCorrect, PTL

\* A machine has a Workflow in one form, and nothing of the other beside it.
THEOREM WorkflowHasOneForm ==
  ASSUME External
  PROVE  WorkflowSpec => []OneFormOfWorkflow
<1>1. WorkflowInv => OneFormOfWorkflow
  BY DEF WorkflowInv
<1> QED BY <1>1, WorkflowCorrect, PTL

\* When the deletion goes on to the Hardware no Workflow, Task or Template of
\* the machine is left.
THEOREM RemovalIsComplete ==
  ASSUME External
  PROVE  WorkflowSpec => []NothingIsLeftBehind
<1>1. WorkflowInv => NothingIsLeftBehind
  BY DEF WorkflowInv, TasksAgree, TemplateAgrees, NothingIsLeftBehind
<1> QED BY <1>1, WorkflowCorrect, PTL

\* ensureTasks and removeTasks write no Task of another owner.
THEOREM OthersTasksAreKept ==
  ASSUME External
  PROVE  WorkflowSpec => OthersTasksAreLeftAlone
<1>1. ASSUME WorkflowInv, [WorkflowNext]_vars, NEW n \in TaskNames, tasks[n].owner = "other"
      PROVE  tasks'[n] = tasks[n]
  <2>0. /\ WorkflowTypeOK /\ PlanAgrees /\ TasksAgree
        /\ tasks \in [TaskNames -> TaskRec] /\ Read.tasks = tasks
        /\ NoTask.owner = "none"
    BY <1>1, Typed, ReadsNow DEF WorkflowInv, NoTask
  <2>1. CASE EnsureTasks
    <3>1. n \notin todo
      BY <1>1, <2>0, <2>1 DEF EnsureTasks, TasksAgree
    <3> QED BY <2>0, <2>1, <3>1 DEF EnsureTasks
  <2>2. CASE DeleteTasks
    <3>1. n \notin todo
      BY <1>1, <2>0, <2>2 DEF DeleteTasks, TasksAgree, Own
    <3> QED BY <2>0, <2>2, <3>1 DEF DeleteTasks
  <2>3. ASSUME NEW o \in TaskNames, OtherTask(o)
        PROVE  tasks'[n] = tasks[n]
    BY <1>1, <2>0, <2>3 DEF OtherTask
  <2>4. UNCHANGED tasks \/ EnsureTasks \/ DeleteTasks \/ \E o \in TaskNames : OtherTask(o)
    BY <1>1, StepCases DEF Begin, GetWorkflow, GetTemplate, GetData, CheckTasks,
       CreateTemplate, ListTasks, CreateWorkflow, RemoveTemplate, RemoveWorkflow,
       Fault, DeleteMachine, EditSetup, StopServing, vars, store
  <2> QED BY <2>1, <2>2, <2>3, <2>4
<1>2. WorkflowInv /\ [WorkflowNext]_vars
        => [\A n \in TaskNames : tasks[n].owner = "other" => tasks'[n] = tasks[n]]_vars
  BY <1>1
<1> QED BY <1>2, WorkflowCorrect, PTL DEF WorkflowSpec, OthersTasksAreLeftAlone
===============================================================================
