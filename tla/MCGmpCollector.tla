--------------------------- MODULE MCGmpCollector ---------------------------
(***************************************************************************)
(* Every response of up to three samples.  Two of the three names are      *)
(* merged when they are sanitised, one sample has the empty name, one has  *)
(* none; "up" comes with one label of the resource's type, with the other  *)
(* and with both.                                                          *)
(***************************************************************************)
EXTENDS GmpCollector, SequencesExt

MCValues == {"", "rule:up", "rule_up", "up", "gce_instance", "k8s_pod"}
MCSanitized == [v \in MCValues |-> IF v = "rule:up" THEN "rule_up" ELSE v]
MCLabels == {"__name__", "monitored_resource", "resource_type"}

NameOnly(name) == [l \in {"__name__"} |-> name]
From(name, label, value) == [l \in {"__name__", label} |-> IF l = "__name__" THEN name ELSE value]
FromBoth(name, resource, type) ==
    [l \in MCLabels |-> CASE l = "__name__" -> name
                          [] l = "monitored_resource" -> resource
                          [] OTHER -> type]

MCSamples ==
    [labels : {NameOnly("rule:up"), NameOnly("rule_up"), NameOnly(""),
               From("up", "monitored_resource", "k8s_pod"), From("up", "resource_type", "k8s_pod"),
               FromBoth("up", "gce_instance", "k8s_pod"), FromBoth("up", "k8s_pod", "k8s_pod")},
     readable : BOOLEAN]
      \cup {[labels |-> [l \in {"resource_type"} |-> "k8s_pod"], readable |-> TRUE]}

MCResponses == BoundedSeq(MCSamples, 3)
=============================================================================
