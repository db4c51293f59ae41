-------------------------- MODULE MCWorkflowCreation --------------------------
(* Small instances of WorkflowCreation. *)
EXTENDS WorkflowCreation

CONSTANTS two, one, legacy, ta, tb

\* Two contents that convert, to overlapping sets of Tasks, and one that
\* does not.
MCData == {two, one, legacy}
MCConvertible == {two, one}
MCTaskNames == {ta, tb}
MCNeeds == [d \in MCConvertible |-> IF d = two THEN {ta, tb} ELSE {tb}]

Inline(d) == [ref |-> FALSE, data |-> d]
Ref(d) == [ref |-> TRUE, data |-> d]
From(m, h, c) == [l \in Levels |-> CASE l = "machine"  -> m
                                     [] l = "hardware" -> h
                                     [] OTHER          -> c]
With(source, boot) == [disks |-> TRUE, boot |-> boot, source |-> source]

\* A template at each level, by value and by reference, a reference to nothing
\* and one to an empty Template, Hardware without disks, and each kind of boot
\* options.
MCSetups ==
  { With(From(Inline(two), Unset, Inline(legacy)), "plain"),
    With(From(Unset, Ref(legacy), Inline(one)), "plain"),
    With(From(Unset, Unset, Inline(one)), "plain"),
    With(From(Unset, Unset, Inline(one)), "templated"),
    With(From(Unset, Ref(Empty), Inline(two)), "plain"),
    With(From(Unset, Ref(Empty), Unset), "plain"),
    With(From(Ref(NoData), Unset, Inline(one)), "plain"),
    With(From(Inline(two), Unset, Unset), "invalid"),
    [With(From(Inline(two), Unset, Unset), "plain") EXCEPT !.disks = FALSE] }

\* No Task of another owner appears between taskConflict's look at its name and
\* ensureTasks' write.
OutsideTheWindow == Steps \ {"checkTasks", "ensureTasks"}
===============================================================================
