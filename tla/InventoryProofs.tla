--------------------------- MODULE InventoryProofs ---------------------------
(***************************************************************************)
(* What the inventory of the clusters guarantees, whatever they answer.    *)
(*                                                                         *)
(* The stages are 65 in one list, put together from nine; Placed looks up  *)
(* those the properties are about.  The handlers only add to what is known *)
(* (Grown), so what an answer leaves at its stage is there in the end.     *)
(* Versions are the exception: they are told at the first stage, sorted at *)
(* the second and left alone from then on.                                 *)
(***************************************************************************)
EXTENDS Inventory, Induction

-----------------------------------------------------------------------------
(* The stages *)

\* The sequence u has the m elements of g after the first n.
Holds(u, n, g, m) == \A i \in 1 .. m : u[n + i] = g[i]

\* The first n elements of w are those of u.
Begins(w, u, n) == \A i \in 1 .. n : w[i] = u[i]

IsConcat(w, u, g) == w = u \o g

\* A sequence of this length.
Long(u, n) == IsSequence(u) /\ Len(u) = n

\* A group of stages added to a list.
LEMMA GroupAdded ==
  ASSUME NEW u, NEW g, NEW w, IsConcat(w, u, g), IsSequence(u), IsSequence(g)
  PROVE  /\ IsSequence(w) /\ Len(w) = Len(u) + Len(g)
         /\ Begins(w, u, Len(u)) /\ Holds(w, Len(u), g, Len(g))
BY JoinedAt DEF IsJoin, Holds, Begins, IsConcat

LEMMA GroupLengths ==
  /\ Long(VersionStages, 2)
  /\ Long(NodeStages, 4)
  /\ Long(ExporterStages, 5)
  /\ Long(MeasureStages, 8)
  /\ Long(ResourceStages, 16)
  /\ Long(NodeOutputStages, 7)
  /\ Long(ClusterStages, 10)
  /\ Long(CrqStages, 8)
  /\ Long(RqStages, 5)
<1>1. Long(VersionStages, 2)
  BY DEF VersionStages, IsSequence, Long
<1>2. Long(NodeStages, 4)
  BY DEF NodeStages, IsSequence, Long
<1>3. Long(ExporterStages, 5)
  BY DEF ExporterStages, IsSequence, Long
<1>4. Long(MeasureStages, 8)
  BY DEF MeasureStages, IsSequence, Long
<1>5. Long(ResourceStages, 16)
  BY DEF ResourceStages, IsSequence, Long
<1>6. Long(NodeOutputStages, 7)
  BY DEF NodeOutputStages, IsSequence, Long
<1>7. Long(ClusterStages, 10)
  BY DEF ClusterStages, IsSequence, Long
<1>8. Long(CrqStages, 8)
  BY DEF CrqStages, IsSequence, Long
<1>9. Long(RqStages, 5)
  BY DEF RqStages, IsSequence, Long
<1> QED BY <1>1, <1>2, <1>3, <1>4, <1>5, <1>6, <1>7, <1>8, <1>9

\* Where each group of stages is.
LEMMA Layout ==
  /\ Long(Stages, 65)
  /\ Holds(Stages, 0, VersionStages, 2) /\ Holds(Stages, 2, NodeStages, 4)
  /\ Holds(Stages, 6, ExporterStages, 5) /\ Holds(Stages, 11, MeasureStages, 8)
  /\ Holds(Stages, 19, ResourceStages, 16) /\ Holds(Stages, 35, NodeOutputStages, 7)
  /\ Holds(Stages, 42, ClusterStages, 10) /\ Holds(Stages, 52, CrqStages, 8)
  /\ Holds(Stages, 60, RqStages, 5)
<1> DEFINE u1 == VersionStages
           u2 == u1 \o NodeStages
           u3 == u2 \o ExporterStages
           u4 == u3 \o MeasureStages
           u5 == u4 \o ResourceStages
           u6 == u5 \o NodeOutputStages
           u7 == u6 \o ClusterStages
           u8 == u7 \o CrqStages
           u9 == u8 \o RqStages
<1>0. Stages = u9
  BY DEF Stages
<1>a. /\ IsConcat(u2, u1, NodeStages) /\ IsConcat(u3, u2, ExporterStages) /\ IsConcat(u4, u3, MeasureStages)
      /\ IsConcat(u5, u4, ResourceStages) /\ IsConcat(u6, u5, NodeOutputStages) /\ IsConcat(u7, u6, ClusterStages)
      /\ IsConcat(u8, u7, CrqStages) /\ IsConcat(u9, u8, RqStages)
  BY DEF IsConcat
<1>1. Long(u1, 2) /\ Holds(u1, 0, VersionStages, 2)
  BY GroupLengths DEF Holds
<1> HIDE DEF u1, u2, u3, u4, u5, u6, u7, u8, u9
<1>2. /\ Long(u2, 6) /\ Begins(u2, u1, 2)
      /\ Holds(u2, 2, NodeStages, 4)
  <2>1. IsSequence(u1) /\ IsSequence(NodeStages) /\ Len(u1) = 2 /\ Len(NodeStages) = 4
    BY <1>1, GroupLengths DEF Long
  <2>2. /\ IsSequence(u2) /\ Len(u2) = Len(u1) + Len(NodeStages)
        /\ Begins(u2, u1, Len(u1)) /\ Holds(u2, Len(u1), NodeStages, Len(NodeStages))
    BY ONLY <1>a, <2>1, GroupAdded
  <2> QED BY ONLY <2>1, <2>2 DEF Long
<1>3. /\ Long(u3, 11) /\ Begins(u3, u2, 6)
      /\ Holds(u3, 6, ExporterStages, 5)
  <2>1. IsSequence(u2) /\ IsSequence(ExporterStages) /\ Len(u2) = 6 /\ Len(ExporterStages) = 5
    BY <1>2, GroupLengths DEF Long
  <2>2. /\ IsSequence(u3) /\ Len(u3) = Len(u2) + Len(ExporterStages)
        /\ Begins(u3, u2, Len(u2)) /\ Holds(u3, Len(u2), ExporterStages, Len(ExporterStages))
    BY ONLY <1>a, <2>1, GroupAdded
  <2> QED BY ONLY <2>1, <2>2 DEF Long
<1>4. /\ Long(u4, 19) /\ Begins(u4, u3, 11)
      /\ Holds(u4, 11, MeasureStages, 8)
  <2>1. IsSequence(u3) /\ IsSequence(MeasureStages) /\ Len(u3) = 11 /\ Len(MeasureStages) = 8
    BY <1>3, GroupLengths DEF Long
  <2>2. /\ IsSequence(u4) /\ Len(u4) = Len(u3) + Len(MeasureStages)
        /\ Begins(u4, u3, Len(u3)) /\ Holds(u4, Len(u3), MeasureStages, Len(MeasureStages))
    BY ONLY <1>a, <2>1, GroupAdded
  <2> QED BY ONLY <2>1, <2>2 DEF Long
<1>5. /\ Long(u5, 35) /\ Begins(u5, u4, 19)
      /\ Holds(u5, 19, ResourceStages, 16)
  <2>1. IsSequence(u4) /\ IsSequence(ResourceStages) /\ Len(u4) = 19 /\ Len(ResourceStages) = 16
    BY <1>4, GroupLengths DEF Long
  <2>2. /\ IsSequence(u5) /\ Len(u5) = Len(u4) + Len(ResourceStages)
        /\ Begins(u5, u4, Len(u4)) /\ Holds(u5, Len(u4), ResourceStages, Len(ResourceStages))
    BY ONLY <1>a, <2>1, GroupAdded
  <2> QED BY ONLY <2>1, <2>2 DEF Long
<1>6. /\ Long(u6, 42) /\ Begins(u6, u5, 35)
      /\ Holds(u6, 35, NodeOutputStages, 7)
  <2>1. IsSequence(u5) /\ IsSequence(NodeOutputStages) /\ Len(u5) = 35 /\ Len(NodeOutputStages) = 7
    BY <1>5, GroupLengths DEF Long
  <2>2. /\ IsSequence(u6) /\ Len(u6) = Len(u5) + Len(NodeOutputStages)
        /\ Begins(u6, u5, Len(u5)) /\ Holds(u6, Len(u5), NodeOutputStages, Len(NodeOutputStages))
    BY ONLY <1>a, <2>1, GroupAdded
  <2> QED BY ONLY <2>1, <2>2 DEF Long
<1>7. /\ Long(u7, 52) /\ Begins(u7, u6, 42)
      /\ Holds(u7, 42, ClusterStages, 10)
  <2>1. IsSequence(u6) /\ IsSequence(ClusterStages) /\ Len(u6) = 42 /\ Len(ClusterStages) = 10
    BY <1>6, GroupLengths DEF Long
  <2>2. /\ IsSequence(u7) /\ Len(u7) = Len(u6) + Len(ClusterStages)
        /\ Begins(u7, u6, Len(u6)) /\ Holds(u7, Len(u6), ClusterStages, Len(ClusterStages))
    BY ONLY <1>a, <2>1, GroupAdded
  <2> QED BY ONLY <2>1, <2>2 DEF Long
<1>8. /\ Long(u8, 60) /\ Begins(u8, u7, 52)
      /\ Holds(u8, 52, CrqStages, 8)
  <2>1. IsSequence(u7) /\ IsSequence(CrqStages) /\ Len(u7) = 52 /\ Len(CrqStages) = 8
    BY <1>7, GroupLengths DEF Long
  <2>2. /\ IsSequence(u8) /\ Len(u8) = Len(u7) + Len(CrqStages)
        /\ Begins(u8, u7, Len(u7)) /\ Holds(u8, Len(u7), CrqStages, Len(CrqStages))
    BY ONLY <1>a, <2>1, GroupAdded
  <2> QED BY ONLY <2>1, <2>2 DEF Long
<1>9. /\ Long(u9, 65) /\ Begins(u9, u8, 60)
      /\ Holds(u9, 60, RqStages, 5)
  <2>1. IsSequence(u8) /\ IsSequence(RqStages) /\ Len(u8) = 60 /\ Len(RqStages) = 5
    BY <1>8, GroupLengths DEF Long
  <2>2. /\ IsSequence(u9) /\ Len(u9) = Len(u8) + Len(RqStages)
        /\ Begins(u9, u8, Len(u8)) /\ Holds(u9, Len(u8), RqStages, Len(RqStages))
    BY ONLY <1>a, <2>1, GroupAdded
  <2> QED BY ONLY <2>1, <2>2 DEF Long
<1>10. /\ Begins(u9, u7, 52)
       /\ Begins(u9, u6, 42)
       /\ Begins(u9, u5, 35)
       /\ Begins(u9, u4, 19)
       /\ Begins(u9, u3, 11)
       /\ Begins(u9, u2, 6)
       /\ Begins(u9, u1, 2)
  BY <1>2, <1>3, <1>4, <1>5, <1>6, <1>7, <1>8, <1>9 DEF Begins
<1>11. Holds(u9, 0, VersionStages, 2)
  BY <1>1, <1>10 DEF Holds, Begins
<1>12. Holds(u9, 2, NodeStages, 4)
  BY <1>2, <1>10 DEF Holds, Begins
<1>13. Holds(u9, 6, ExporterStages, 5)
  BY <1>3, <1>10 DEF Holds, Begins
<1>14. Holds(u9, 11, MeasureStages, 8)
  BY <1>4, <1>10 DEF Holds, Begins
<1>15. Holds(u9, 19, ResourceStages, 16)
  BY <1>5, <1>10 DEF Holds, Begins
<1>16. Holds(u9, 35, NodeOutputStages, 7)
  BY <1>6, <1>10 DEF Holds, Begins
<1>17. Holds(u9, 42, ClusterStages, 10)
  BY <1>7, <1>10 DEF Holds, Begins
<1>18. Holds(u9, 52, CrqStages, 8)
  BY <1>8, <1>9 DEF Holds, Begins
<1> QED BY <1>0, <1>9, <1>11, <1>12, <1>13, <1>14, <1>15, <1>16, <1>17, <1>18

-----------------------------------------------------------------------------
(* What the handlers keep *)

NodeColumns == {NodeAttributeHeader[i] : i \in DOMAIN NodeAttributeHeader}
TotalColumns == {"CpuLimit", "CpuRequest", "MemoryLimit", "MemoryRequest"}
QuotaColumnSet == {QuotaColumns[i] : i \in DOMAIN QuotaColumns}

NodeOK(n) ==
  /\ DOMAIN n = {"providerId", "k8sVersion", "labels", "gpuLabels", "taints", "values"}
  /\ DOMAIN n.values \subseteq NodeColumns

QuotaOK(q) ==
  /\ DOMAIN q = {"createTime", "labels", "selector", "namespaces", "resources", "values"}
  /\ DOMAIN q.values \subseteq QuotaColumnSet

\* What is known of a cluster is well formed.
ClusterOK(cl) ==
  /\ DOMAIN cl = {"versions", "exporters", "nodes", "roles", "unwritable", "open", "rows",
                  "totals", "crqs", "rqs"}
  /\ cl.open \subseteq DOMAIN cl.rows
  /\ DOMAIN cl.totals \subseteq TotalColumns
  /\ \A n \in DOMAIN cl.nodes : NodeOK(cl.nodes[n])
  /\ \A q \in DOMAIN cl.crqs : QuotaOK(cl.crqs[q])

\* Nothing that counts is forgotten, and no node becomes known.
Grown(cl, d) ==
  /\ d.versions = cl.versions
  /\ cl.exporters \subseteq d.exporters
  /\ DOMAIN cl.totals \subseteq DOMAIN d.totals
  /\ DOMAIN d.nodes = DOMAIN cl.nodes
  /\ \A n \in DOMAIN cl.nodes : DOMAIN cl.nodes[n].values \subseteq DOMAIN d.nodes[n].values

LEMMA GrownTransitive ==
  ASSUME NEW a, NEW b, NEW c, Grown(a, b), Grown(b, c)
  PROVE  Grown(a, c)
<1>1. ASSUME NEW n \in DOMAIN a.nodes PROVE DOMAIN a.nodes[n].values \subseteq DOMAIN c.nodes[n].values
  <2>1. n \in DOMAIN b.nodes
    BY DEF Grown
  <2> QED BY <2>1 DEF Grown
<1> QED BY <1>1 DEF Grown

\* The columns of a node that have values.
MeasuredColumns == {
  "NetworkSpeed", "CpuLimit", "CpuRequest", "MemoryLimit", "MemoryRequest",
  "GpuLimit", "GpuRequest", "CapacityPods", "CapacityCpu", "CapacityMemory",
  "CapacityGpu", "CapacityEphemeralStorage", "CapacityHugePages", "AllocatablePods",
  "AllocatableCpu", "AllocatableMemory", "AllocatableGpu",
  "AllocatableEphemeralStorage", "AllocatableHugePages", "MemoryTotalBytes",
  "GpuTotal", "GpuMemoryTotal", "GpuReplicas", "GpuVendor", "GpuModel",
  "GpuSharingStrategy", "GpuMpsCapable", "GpuVgpuPresent", "GpuMigCapable",
  "GpuMigStrategy"}

LEMMA MeasuredColumnsKnown == MeasuredColumns \subseteq NodeColumns
<1>1. DOMAIN NodeAttributeHeader = 1 .. 42
  BY DEF NodeAttributeHeader
<1>2. /\ NodeAttributeHeader[8] = "NetworkSpeed"
      /\ NodeAttributeHeader[9] = "CpuLimit"
      /\ NodeAttributeHeader[10] = "CpuRequest"
      /\ NodeAttributeHeader[11] = "MemoryLimit"
      /\ NodeAttributeHeader[12] = "MemoryRequest"
      /\ NodeAttributeHeader[13] = "GpuLimit"
      /\ NodeAttributeHeader[14] = "GpuRequest"
      /\ NodeAttributeHeader[15] = "CapacityPods"
      /\ NodeAttributeHeader[16] = "CapacityCpu"
      /\ NodeAttributeHeader[17] = "CapacityMemory"
      /\ NodeAttributeHeader[18] = "CapacityGpu"
      /\ NodeAttributeHeader[19] = "CapacityEphemeralStorage"
  BY DEF NodeAttributeHeader
<1>3. /\ NodeAttributeHeader[20] = "CapacityHugePages"
      /\ NodeAttributeHeader[21] = "AllocatablePods"
      /\ NodeAttributeHeader[22] = "AllocatableCpu"
      /\ NodeAttributeHeader[23] = "AllocatableMemory"
      /\ NodeAttributeHeader[24] = "AllocatableGpu"
      /\ NodeAttributeHeader[25] = "AllocatableEphemeralStorage"
      /\ NodeAttributeHeader[26] = "AllocatableHugePages"
      /\ NodeAttributeHeader[27] = "MemoryTotalBytes"
      /\ NodeAttributeHeader[28] = "GpuTotal"
      /\ NodeAttributeHeader[29] = "GpuMemoryTotal"
      /\ NodeAttributeHeader[30] = "GpuReplicas"
  BY DEF NodeAttributeHeader
<1>4. /\ NodeAttributeHeader[36] = "GpuVendor"
      /\ NodeAttributeHeader[37] = "GpuModel"
      /\ NodeAttributeHeader[38] = "GpuSharingStrategy"
      /\ NodeAttributeHeader[39] = "GpuMpsCapable"
      /\ NodeAttributeHeader[40] = "GpuVgpuPresent"
      /\ NodeAttributeHeader[41] = "GpuMigCapable"
      /\ NodeAttributeHeader[42] = "GpuMigStrategy"
  BY DEF NodeAttributeHeader
<1>5. ASSUME NEW i \in 1 .. 42 PROVE NodeAttributeHeader[i] \in NodeColumns
  BY <1>1 DEF NodeColumns
<1> QED BY <1>2, <1>3, <1>4, <1>5 DEF MeasuredColumns

\* What the effects of metrics on nodes are.
LEMMA EffectsKnown ==
  /\ \A e \in NodeEffects : e.attribute \in MeasuredColumns \cup {None}
  /\ \A e \in NodeEffects : e.metric \notin {"limits", "requests"} => e.attribute \in MeasuredColumns
BY DEF NodeEffects, NodeEffect, MeasuredColumns

\* The values of labels are values of known columns.
LEMMA LabelsKnown ==
  ASSUME NEW s
  PROVE  /\ DOMAIN ValuesOf(NvidiaLabels, s) \subseteq MeasuredColumns
         /\ DOMAIN ValuesOf(MigLabels, s) \subseteq MeasuredColumns
         /\ DOMAIN ValuesOf(GkeLabels, s) \subseteq MeasuredColumns
         /\ DOMAIN ValuesOf([GpuModel |-> "modelName"], s) \subseteq MeasuredColumns
<1>1. /\ DOMAIN NvidiaLabels \subseteq MeasuredColumns
      /\ DOMAIN MigLabels \subseteq MeasuredColumns
      /\ DOMAIN GkeLabels \subseteq MeasuredColumns
      /\ DOMAIN [GpuModel |-> "modelName"] \subseteq MeasuredColumns
  BY DEF NvidiaLabels, MigLabels, GkeLabels, MeasuredColumns
<1>2. ASSUME NEW labels PROVE DOMAIN ValuesOf(labels, s) \subseteq DOMAIN labels
  BY DEF ValuesOf
<1> QED BY <1>1, <1>2

LEMMA GpuLabelsApplied ==
  ASSUME NEW values, NEW s, DOMAIN values \subseteq NodeColumns
  PROVE  /\ DOMAIN applyGpuLabels(values, s) \subseteq NodeColumns
         /\ DOMAIN values \subseteq DOMAIN applyGpuLabels(values, s)
<1> DEFINE gke == ValuesOf(GkeLabels, s)
           vendor == [GpuVendor |-> "Nvidia"]
           labelled == Over(ValuesOf(NvidiaLabels, s), values)
           nvidia == Over(vendor, labelled)
           mig == Over(ValuesOf(MigLabels, s), nvidia)
           cleared == [GpuVendor |-> "Nvidia", GpuModel |-> "", GpuSharingStrategy |-> "",
                       GpuReplicas |-> 0]
           mps == IF Label(s, "gke_gpu_sharing_strategy") = "mps" THEN [GpuMpsCapable |-> "true"]
                  ELSE <<>>
           rest == Over(cleared, Over(mps, values))
<1>1. ASSUME NEW f, NEW g, DOMAIN f \subseteq NodeColumns,
             DOMAIN g \subseteq NodeColumns, DOMAIN values \subseteq DOMAIN g
      PROVE  DOMAIN Over(f, g) \subseteq NodeColumns /\ DOMAIN values \subseteq DOMAIN Over(f, g)
  BY <1>1 DEF Over
<1>2. /\ DOMAIN vendor \subseteq NodeColumns
      /\ DOMAIN cleared \subseteq NodeColumns
      /\ DOMAIN mps \subseteq NodeColumns
  <2>1. DOMAIN [GpuMpsCapable |-> "true"] = {"GpuMpsCapable"} /\ DOMAIN <<>> = {}
    OBVIOUS
  <2> QED BY <2>1, MeasuredColumnsKnown DEF MeasuredColumns
<1>3. DOMAIN gke \subseteq NodeColumns /\ DOMAIN ValuesOf(NvidiaLabels, s) \subseteq NodeColumns
      /\ DOMAIN ValuesOf(MigLabels, s) \subseteq NodeColumns
  BY LabelsKnown, MeasuredColumnsKnown
<1>4. applyGpuLabels(values, s) \in {values, nvidia, mig, Over(gke, rest)}
  BY DEF applyGpuLabels
<1> HIDE DEF gke, vendor, cleared, mps
<1>5. /\ DOMAIN nvidia \subseteq NodeColumns /\ DOMAIN values \subseteq DOMAIN nvidia
      /\ DOMAIN mig \subseteq NodeColumns /\ DOMAIN values \subseteq DOMAIN mig
  BY <1>1, <1>2, <1>3
<1>6. DOMAIN rest \subseteq NodeColumns /\ DOMAIN values \subseteq DOMAIN rest
  BY <1>1, <1>2
<1>7. DOMAIN Over(gke, rest) \subseteq NodeColumns /\ DOMAIN values \subseteq DOMAIN Over(gke, rest)
  BY <1>1, <1>3, <1>6
<1> HIDE DEF nvidia, mig, rest
<1> QED BY <1>4, <1>5, <1>7

LEMMA ValuesMeasured ==
  ASSUME NEW values, NEW metric, NEW s, DOMAIN values \subseteq NodeColumns
  PROVE  /\ DOMAIN NodeValuesAfter(values, metric, s) \subseteq NodeColumns
         /\ DOMAIN values \subseteq DOMAIN NodeValuesAfter(values, metric, s)
         /\ {e.attribute : e \in NodeEffectsOf(metric, s)} \ {None}
              \subseteq DOMAIN NodeValuesAfter(values, metric, s)
<1> DEFINE attributes == {e.attribute : e \in NodeEffectsOf(metric, s)} \ {None}
           ifUnknown == CASE "AllocatableGpu" \in attributes -> {"GpuTotal", "GpuReplicas"}
                          [] metric = "gpuMemoryTotal" -> {"GpuMemoryTotal"}
                          [] OTHER -> {}
           model == IF metric = "modelName" THEN ValuesOf([GpuModel |-> "modelName"], s) ELSE <<>>
           measured == [a \in attributes |-> s.value]
           guessed == [a \in ifUnknown |-> s.value]
<1>1. NodeValuesAfter(values, metric, s) = Over(model, Over(measured, Over(values, guessed)))
  BY DEF NodeValuesAfter
<1>2. attributes \subseteq NodeColumns
  BY EffectsKnown, MeasuredColumnsKnown DEF NodeEffectsOf
<1>3. ifUnknown \subseteq NodeColumns
  <2>1. ASSUME "AllocatableGpu" \in attributes PROVE metric # "gpuMemoryTotal"
    <3>1. PICK e \in NodeEffects : e.metric = metric
      BY <2>1 DEF NodeEffectsOf
    <3> QED BY <3>1 DEF NodeEffects, NodeEffect
  <2> HIDE DEF attributes
  <2>2. ifUnknown \in {{"GpuTotal", "GpuReplicas"}, {"GpuMemoryTotal"}, {}}
    BY <2>1
  <2> HIDE DEF ifUnknown
  <2> QED BY <2>2, MeasuredColumnsKnown DEF MeasuredColumns
<1>4. DOMAIN model \subseteq NodeColumns
  <2>1. DOMAIN <<>> = {}
    OBVIOUS
  <2> QED BY <2>1, LabelsKnown, MeasuredColumnsKnown
<1>5. DOMAIN measured = attributes /\ DOMAIN guessed = ifUnknown
  OBVIOUS
<1> HIDE DEF attributes, ifUnknown, model, measured, guessed
<1>6. DOMAIN Over(model, Over(measured, Over(values, guessed)))
        = DOMAIN model \cup attributes \cup DOMAIN values \cup ifUnknown
  BY <1>5 DEF Over
<1> QED BY <1>1, <1>2, <1>3, <1>4, <1>6 DEF attributes

\* Known nodes changed.
LEMMA NodesChanged ==
  ASSUME NEW cl, ClusterOK(cl), NEW f, DOMAIN f \subseteq DOMAIN cl.nodes,
         \A n \in DOMAIN f : NodeOK(f[n]) /\ DOMAIN cl.nodes[n].values \subseteq DOMAIN f[n].values
  PROVE  LET d == [cl EXCEPT !.nodes = Over(f, @)]
         IN /\ ClusterOK(d) /\ Grown(cl, d)
            /\ \A n \in DOMAIN f : d.nodes[n] = f[n]
            /\ \A x \in DOMAIN cl \ {"nodes"} : d[x] = cl[x]
<1> DEFINE nodes == Over(f, cl.nodes)
           d == [cl EXCEPT !.nodes = nodes]
<1>1. /\ DOMAIN nodes = DOMAIN cl.nodes
      /\ \A n \in DOMAIN f : nodes[n] = f[n]
      /\ \A n \in DOMAIN cl.nodes \ DOMAIN f : nodes[n] = cl.nodes[n]
  BY DEF Over
<1> HIDE DEF nodes
<1>2. /\ DOMAIN d = DOMAIN cl /\ d.nodes = nodes
      /\ \A x \in DOMAIN cl \ {"nodes"} : d[x] = cl[x]
  BY DEF ClusterOK
<1>3. /\ d.versions = cl.versions /\ d.exporters = cl.exporters /\ d.open = cl.open /\ d.rows = cl.rows
      /\ d.totals = cl.totals /\ d.crqs = cl.crqs
  BY <1>2 DEF ClusterOK
<1>4. \A n \in DOMAIN cl.nodes : NodeOK(cl.nodes[n])
  BY DEF ClusterOK
<1> HIDE DEF d
<1>5. ASSUME NEW n \in DOMAIN d.nodes
      PROVE  NodeOK(d.nodes[n]) /\ DOMAIN cl.nodes[n].values \subseteq DOMAIN d.nodes[n].values
  <2>1. CASE n \in DOMAIN f
    BY <1>1, <1>2, <2>1
  <2>2. CASE n \notin DOMAIN f
    BY <1>1, <1>2, <1>4, <2>2
  <2> QED BY <2>1, <2>2
<1>6. ClusterOK(d)
  BY <1>2, <1>3, <1>5 DEF ClusterOK
<1>7. Grown(cl, d)
  BY <1>1, <1>2, <1>3, <1>5 DEF Grown
<1> QED BY <1>1, <1>2, <1>6, <1>7 DEF d, nodes

\* Nothing about nodes changed, nor forgotten of versions, exporters and totals.
LEMMA OthersChanged ==
  ASSUME NEW cl, NEW d, ClusterOK(cl), DOMAIN d = DOMAIN cl, d.nodes = cl.nodes,
         d.versions = cl.versions, cl.exporters \subseteq d.exporters,
         DOMAIN cl.totals \subseteq DOMAIN d.totals, DOMAIN d.totals \subseteq TotalColumns,
         d.open \subseteq DOMAIN d.rows, \A q \in DOMAIN d.crqs : QuotaOK(d.crqs[q])
  PROVE  ClusterOK(d) /\ Grown(cl, d)
BY DEF ClusterOK, Grown

\* The handlers of labels and of taints.
LEMMA LabelsGrow ==
  ASSUME NEW cl, NEW s, ClusterOK(cl)
  PROVE  LET d == getNodeMetricString(cl, s) IN ClusterOK(d) /\ Grown(cl, d)
<1> DEFINE found == getNode(cl, s, "node")
           Described(n) ==
             [n EXCEPT !.values = applyGpuLabels(@, s),
                       !.labels = @ \cup {p \in LabelPairs(s) : ~isGpuLabel(p[1])},
                       !.gpuLabels = @ \cup {p \in LabelPairs(s) : isGpuLabel(p[1])}]
           f == [n \in found |-> Described(cl.nodes[n])]
           roles == cl.roles \cup {s[l] : l \in DOMAIN s \cap {"role"}}
           mid == [cl EXCEPT !.nodes = Over(f, @)]
           d == [cl EXCEPT !.nodes = Over(f, @), !.roles = roles]
<1>1. CASE found = {}
  <2>1. getNodeMetricString(cl, s) = cl
    BY <1>1 DEF getNodeMetricString
  <2> QED BY <2>1 DEF Grown
<1>2. CASE found # {}
  <2>1. getNodeMetricString(cl, s) = d
    BY <1>2 DEF getNodeMetricString
  <2>2. found \subseteq DOMAIN cl.nodes
    BY DEF getNode
  <2> HIDE DEF found
  <2>3. ASSUME NEW n \in found
        PROVE  NodeOK(f[n]) /\ DOMAIN cl.nodes[n].values \subseteq DOMAIN f[n].values
    <3> DEFINE node == cl.nodes[n]
    <3>1. NodeOK(node)
      BY <2>2 DEF ClusterOK
    <3>2. f[n] = Described(node)
      OBVIOUS
    <3> HIDE DEF node
    <3>3. DOMAIN Described(node) = DOMAIN node /\ Described(node).values = applyGpuLabels(node.values, s)
      BY <3>1 DEF NodeOK
    <3> HIDE DEF Described, f
    <3>4. /\ DOMAIN Described(node).values \subseteq NodeColumns
          /\ DOMAIN node.values \subseteq DOMAIN Described(node).values
      BY <3>1, <3>3, GpuLabelsApplied DEF NodeOK
    <3> QED BY <3>1, <3>2, <3>3, <3>4 DEF NodeOK, node
  <2>4. DOMAIN f = found
    OBVIOUS
  <2> HIDE DEF f
  <2>5. ClusterOK(mid) /\ Grown(cl, mid)
    BY <2>2, <2>3, <2>4, NodesChanged
  <2>6. /\ DOMAIN d = DOMAIN mid /\ d.nodes = mid.nodes /\ d.versions = mid.versions
        /\ d.exporters = mid.exporters /\ d.totals = mid.totals /\ d.open = mid.open
        /\ d.rows = mid.rows /\ d.crqs = mid.crqs
    BY DEF ClusterOK
  <2> HIDE DEF mid, d
  <2>7. ClusterOK(d) /\ Grown(cl, d)
    BY <2>5, <2>6 DEF ClusterOK, Grown
  <2> QED BY <2>1, <2>7
<1> QED BY <1>1, <1>2

LEMMA TaintsGrow ==
  ASSUME NEW cl, NEW s, ClusterOK(cl)
  PROVE  LET d == getNodeTaints(cl, s) IN ClusterOK(d) /\ Grown(cl, d)
<1> DEFINE found == getNode(cl, s, "node")
           taint == <<Label(s, "key"), Label(s, "value"), Label(s, "effect")>>
           Tainted(n) == [n EXCEPT !.taints = Append(@, taint)]
           f == [n \in found |-> Tainted(cl.nodes[n])]
           d == [cl EXCEPT !.nodes = Over(f, @)]
<1>1. getNodeTaints(cl, s) = d
  BY DEF getNodeTaints
<1>2. found \subseteq DOMAIN cl.nodes
  BY DEF getNode
<1> HIDE DEF found, taint
<1>3. ASSUME NEW n \in found
      PROVE  NodeOK(f[n]) /\ DOMAIN cl.nodes[n].values \subseteq DOMAIN f[n].values
  <2>1. NodeOK(cl.nodes[n])
    BY <1>2 DEF ClusterOK
  <2>2. DOMAIN f[n] = DOMAIN cl.nodes[n] /\ f[n].values = cl.nodes[n].values
    <3> DEFINE node == cl.nodes[n]
               tainted == Append(node.taints, taint)
    <3>1. f[n] = [node EXCEPT !.taints = tainted]
      OBVIOUS
    <3> HIDE DEF tainted, node, f, Tainted
    <3> QED BY <2>1, <3>1 DEF NodeOK, node
  <2> QED BY <2>1, <2>2 DEF NodeOK
<1>4. DOMAIN f = found
  OBVIOUS
<1> HIDE DEF f
<1>5. ClusterOK(d) /\ Grown(cl, d)
  BY <1>2, <1>3, <1>4, NodesChanged
<1> QED BY <1>1, <1>5

\* A row written to a write-through file, or not.
LEMMA WorkloadGrows ==
  ASSUME NEW cl, NEW file, NEW name, NEW value, ClusterOK(cl)
  PROVE  LET d == WriteNodeWorkload(cl, file, name, value)
         IN ClusterOK(d) /\ Grown(cl, d) /\ d.nodes = cl.nodes
<1> DEFINE row == <<overrideNodeName(cl, name), value>>
           before == IF file \in cl.open THEN cl.rows[file] ELSE <<>>
           rows == Over([x \in {file} |-> Append(before, row)], cl.rows)
           d == [cl EXCEPT !.open = @ \cup {file}, !.rows = rows]
<1>1. CASE WriteNodeWorkload(cl, file, name, value) = cl
  BY <1>1 DEF Grown
<1>2. CASE WriteNodeWorkload(cl, file, name, value) = d
  <2>1. DOMAIN rows = {file} \cup DOMAIN cl.rows
    BY DEF Over
  <2> HIDE DEF rows
  <2>2. /\ DOMAIN d = DOMAIN cl /\ d.open = cl.open \cup {file} /\ d.rows = rows
        /\ d.nodes = cl.nodes /\ d.versions = cl.versions /\ d.exporters = cl.exporters
        /\ d.totals = cl.totals /\ d.crqs = cl.crqs
    BY DEF ClusterOK
  <2> HIDE DEF d
  <2>3. ClusterOK(d) /\ Grown(cl, d)
    BY <2>1, <2>2 DEF ClusterOK, Grown
  <2> QED BY <1>2, <2>2, <2>3
<1>3. WriteNodeWorkload(cl, file, name, value) = cl \/ WriteNodeWorkload(cl, file, name, value) = d
  BY DEF WriteNodeWorkload
<1> QED BY <1>1, <1>2, <1>3

\* The handler of a node's metrics records the value, which it does not forget.
LEMMA MetricGrows ==
  ASSUME NEW metric, NEW label, NEW cl, NEW s, ClusterOK(cl)
  PROVE  LET d == getNodeMetric(metric, label, cl, s)
         IN /\ ClusterOK(d) /\ Grown(cl, d)
            /\ \A n \in getNode(cl, s, label) :
                 {e.attribute : e \in NodeEffectsOf(metric, s)} \ {None} \subseteq DOMAIN d.nodes[n].values
<1> DEFINE found == getNode(cl, s, label)
           due == {e.file : e \in NodeEffectsOf(metric, s)} \ {None}
           attributes == {e.attribute : e \in NodeEffectsOf(metric, s)} \ {None}
           Measured(n) == [n EXCEPT !.values = NodeValuesAfter(@, metric, s)]
           f == [n \in found |-> Measured(cl.nodes[n])]
           mid == [cl EXCEPT !.nodes = Over(f, @)]
           file == CHOOSE x \in due : TRUE
           name == CHOOSE n \in found : TRUE
           d == getNodeMetric(metric, label, cl, s)
<1>1. d = mid \/ d = WriteNodeWorkload(mid, file, name, s.value)
  BY DEF getNodeMetric
<1>2. found \subseteq DOMAIN cl.nodes
  BY DEF getNode
<1> HIDE DEF found, due, attributes, file, name, d
<1>3. ASSUME NEW n \in found
      PROVE  /\ NodeOK(f[n]) /\ DOMAIN cl.nodes[n].values \subseteq DOMAIN f[n].values
             /\ attributes \subseteq DOMAIN f[n].values
  <2> DEFINE node == cl.nodes[n]
             values == NodeValuesAfter(node.values, metric, s)
  <2>1. NodeOK(node)
    BY <1>2 DEF ClusterOK
  <2>2. f[n] = [node EXCEPT !.values = values]
    OBVIOUS
  <2>3. DOMAIN values \subseteq NodeColumns /\ DOMAIN node.values \subseteq DOMAIN values
        /\ attributes \subseteq DOMAIN values
    BY <2>1, ValuesMeasured DEF NodeOK, attributes
  <2> HIDE DEF values, node, f, Measured
  <2>4. DOMAIN f[n] = DOMAIN node /\ f[n].values = values
    BY <2>1, <2>2 DEF NodeOK
  <2> QED BY <2>1, <2>3, <2>4 DEF NodeOK, node
<1>4. DOMAIN f = found
  OBVIOUS
<1> HIDE DEF f
<1>5. ClusterOK(mid) /\ Grown(cl, mid) /\ \A n \in found : mid.nodes[n] = f[n]
  BY <1>2, <1>3, <1>4, NodesChanged
<1> HIDE DEF mid
<1>6. ClusterOK(d) /\ Grown(mid, d) /\ d.nodes = mid.nodes
  <2>1. CASE d = mid
    BY <1>5, <2>1 DEF Grown
  <2>2. CASE d = WriteNodeWorkload(mid, file, name, s.value)
    BY <1>5, <2>2, WorkloadGrows
  <2> QED BY <1>1, <2>1, <2>2
<1>7. Grown(cl, d)
  BY <1>5, <1>6, GrownTransitive
<1> QED BY <1>3, <1>5, <1>6, <1>7 DEF d, found, attributes

\* The handler of the cluster's metrics likewise.
LEMMA TotalGrows ==
  ASSUME NEW metric, NEW cl, NEW s, ClusterOK(cl)
  PROVE  LET d == getClusterMetric(metric, cl, s)
         IN /\ ClusterOK(d) /\ Grown(cl, d)
            /\ \A e \in ClusterEffects : e.metric = metric /\ e.resource = None => e.attribute \in DOMAIN d.totals
<1> DEFINE set == {e.attribute : e \in {e \in ClusterEffects :
                     e.metric = metric /\ e.resource \in {None, Label(s, "resource")}}}
           totals == Over([a \in set |-> s.value], cl.totals)
           d == [cl EXCEPT !.totals = totals]
<1>1. getClusterMetric(metric, cl, s) = d
  BY DEF getClusterMetric
<1>2. set \subseteq TotalColumns
  <2>1. \A e \in ClusterEffects : e.attribute \in TotalColumns
    BY DEF ClusterEffects, ClusterEffect, TotalColumns
  <2> QED BY <2>1
<1>3. \A e \in ClusterEffects : e.metric = metric /\ e.resource = None => e.attribute \in set
  OBVIOUS
<1> HIDE DEF set
<1>4. DOMAIN totals = set \cup DOMAIN cl.totals
  BY DEF Over
<1> HIDE DEF totals
<1>5. /\ DOMAIN d = DOMAIN cl /\ d.totals = totals /\ d.open = cl.open /\ d.rows = cl.rows
      /\ d.nodes = cl.nodes /\ d.versions = cl.versions /\ d.exporters = cl.exporters
      /\ d.crqs = cl.crqs
  BY DEF ClusterOK
<1> HIDE DEF d
<1>6. ClusterOK(d) /\ Grown(cl, d)
  BY <1>2, <1>4, <1>5 DEF ClusterOK, Grown
<1> QED BY <1>1, <1>3, <1>4, <1>5, <1>6

\* What determines exporters, and when an answer says of a node exporter.
LEMMA ExporterGrows ==
  ASSUME NEW exporter, NEW cl, NEW answer, ClusterOK(cl)
  PROVE  LET d == DetermineExporter(exporter, cl, answer)
         IN /\ ClusterOK(d) /\ Grown(cl, d)
            /\ exporter = "node" /\ answer # <<>> => NodeIndicator(answer[Len(answer)]) \subseteq d.exporters
<1> DEFINE more == IF exporter = "node" THEN NodeIndicator(answer[Len(answer)]) ELSE {exporter}
           d == [cl EXCEPT !.exporters = @ \cup more]
<1>1. CASE answer = <<>>
  <2>1. DetermineExporter(exporter, cl, answer) = cl
    BY <1>1 DEF DetermineExporter
  <2> QED BY <1>1, <2>1 DEF Grown
<1>2. CASE answer # <<>>
  <2>1. DetermineExporter(exporter, cl, answer) = d
    BY <1>2 DEF DetermineExporter
  <2>2. exporter = "node" => more = NodeIndicator(answer[Len(answer)])
    OBVIOUS
  <2> HIDE DEF more
  <2>3. /\ DOMAIN d = DOMAIN cl /\ d.exporters = cl.exporters \cup more /\ d.totals = cl.totals
        /\ d.open = cl.open /\ d.rows = cl.rows /\ d.nodes = cl.nodes
        /\ d.versions = cl.versions /\ d.crqs = cl.crqs
    BY DEF ClusterOK
  <2> HIDE DEF d
  <2>4. ClusterOK(d) /\ Grown(cl, d)
    BY <2>3 DEF ClusterOK, Grown
  <2> QED BY <2>1, <2>2, <2>3, <2>4
<1> QED BY <1>1, <1>2

\* A node becomes known, or known with more labels.
LEMMA CreateKeeps ==
  ASSUME NEW cl, NEW s, ClusterOK(cl)
  PROVE  LET d == createNode(cl, s)
         IN ClusterOK(d) /\ d.versions = cl.versions
<1> DEFINE name == Label(s, "node")
           version == GetNodeVersion(cl.versions, name)
           new == [providerId |-> IF "provider_id" \in DOMAIN s THEN s.provider_id ELSE NoProvider,
                   k8sVersion |-> IF version # "" THEN version ELSE Label(s, "kubelet_version"),
                   labels |-> {}, gpuLabels |-> {}, taints |-> <<>>, values |-> <<>>]
           n == IF name \in DOMAIN cl.nodes THEN cl.nodes[name] ELSE new
           m == [n EXCEPT !.labels = @ \cup LabelPairs(s)]
           nodes == Over([x \in {name} |-> m], cl.nodes)
           d == [cl EXCEPT !.nodes = nodes]
<1>1. createNode(cl, s) = d
  BY DEF createNode
<1>2. NodeOK(new)
  <2>1. DOMAIN <<>> = {}
    OBVIOUS
  <2> QED BY <2>1 DEF NodeOK
<1> HIDE DEF new, name
<1>3. NodeOK(n)
  BY <1>2 DEF ClusterOK
<1> HIDE DEF n
<1>4. NodeOK(m)
  BY <1>3 DEF NodeOK
<1> HIDE DEF m
<1>5. ASSUME NEW x \in DOMAIN nodes PROVE NodeOK(nodes[x])
  BY <1>4 DEF Over, ClusterOK
<1> HIDE DEF nodes
<1>6. /\ DOMAIN d = DOMAIN cl /\ d.nodes = nodes /\ d.versions = cl.versions
      /\ d.totals = cl.totals /\ d.open = cl.open /\ d.rows = cl.rows /\ d.crqs = cl.crqs
  BY DEF ClusterOK
<1> HIDE DEF d
<1>7. ClusterOK(d)
  BY <1>5, <1>6 DEF ClusterOK
<1> QED BY <1>1, <1>6, <1>7

\* Cluster resource quotas changed, or added.
LEMMA CrqsChanged ==
  ASSUME NEW cl, ClusterOK(cl), NEW f, \A q \in DOMAIN f : QuotaOK(f[q])
  PROVE  LET d == [cl EXCEPT !.crqs = Over(f, @)] IN ClusterOK(d) /\ Grown(cl, d)
<1> DEFINE crqs == Over(f, cl.crqs)
           d == [cl EXCEPT !.crqs = crqs]
<1>1. ASSUME NEW q \in DOMAIN crqs PROVE QuotaOK(crqs[q])
  BY DEF Over, ClusterOK
<1> HIDE DEF crqs
<1>2. /\ DOMAIN d = DOMAIN cl /\ d.nodes = cl.nodes /\ d.versions = cl.versions
      /\ d.exporters = cl.exporters /\ d.totals = cl.totals /\ d.open = cl.open
      /\ d.rows = cl.rows /\ d.crqs = crqs
  BY DEF ClusterOK
<1> HIDE DEF d
<1>3. ClusterOK(d) /\ Grown(cl, d)
  BY <1>1, <1>2 DEF ClusterOK, Grown
<1> QED BY <1>3 DEF d, crqs

LEMMA RqsChanged ==
  ASSUME NEW cl, ClusterOK(cl), NEW rqs
  PROVE  LET d == [cl EXCEPT !.rqs = rqs] IN ClusterOK(d) /\ Grown(cl, d)
<1> DEFINE d == [cl EXCEPT !.rqs = rqs]
<1>1. /\ DOMAIN d = DOMAIN cl /\ d.nodes = cl.nodes /\ d.versions = cl.versions
      /\ d.exporters = cl.exporters /\ d.totals = cl.totals /\ d.open = cl.open
      /\ d.rows = cl.rows /\ d.crqs = cl.crqs
  BY DEF ClusterOK
<1> HIDE DEF d
<1>2. ClusterOK(d) /\ Grown(cl, d)
  BY <1>1 DEF ClusterOK, Grown
<1> QED BY <1>2 DEF d

LEMMA QuotaColumnKnown ==
  ASSUME NEW type, NEW resource, NEW podNames
  PROVE  QuotaColumn(type, QuotaOf(resource, podNames)) \subseteq QuotaColumnSet
<1> DEFINE quotas == {"CpuLimit", "CpuRequest", "MemoryLimit", "MemoryRequest", "Pods"}
<1>1. QuotaOf(resource, podNames) \in quotas \cup {None}
  BY DEF QuotaOf
<1>2. DOMAIN QuotaColumns = 1 .. 10
  BY DEF QuotaColumns
<1>3. /\ QuotaColumns[1] = "CpuLimit" /\ QuotaColumns[2] = "CpuRequest"
      /\ QuotaColumns[3] = "MemoryLimit" /\ QuotaColumns[4] = "MemoryRequest"
      /\ QuotaColumns[5] = "CurrentSize" /\ QuotaColumns[6] = "NamespaceCpuLimit"
      /\ QuotaColumns[7] = "NamespaceCpuRequest" /\ QuotaColumns[8] = "NamespaceMemoryLimit"
      /\ QuotaColumns[9] = "NamespaceMemoryRequest" /\ QuotaColumns[10] = "NamespacePodsLimit"
  BY DEF QuotaColumns
<1>4. ASSUME NEW i \in 1 .. 10 PROVE QuotaColumns[i] \in QuotaColumnSet
  BY <1>2 DEF QuotaColumnSet
<1>5. ASSUME NEW quota \in quotas
      PROVE  HardColumn[quota] \in QuotaColumnSet /\ UsedColumn[quota] \in QuotaColumnSet
  <2>1. /\ HardColumn[quota] \in {"NamespaceCpuLimit", "NamespaceCpuRequest", "NamespaceMemoryLimit",
                                  "NamespaceMemoryRequest", "NamespacePodsLimit"}
        /\ UsedColumn[quota] \in {"CpuLimit", "CpuRequest", "MemoryLimit", "MemoryRequest", "CurrentSize"}
    BY DEF HardColumn, UsedColumn
  <2> QED BY <2>1, <1>3, <1>4
<1> HIDE DEF quotas
<1>6. ASSUME NEW quota \in quotas PROVE QuotaColumn(type, quota) \subseteq QuotaColumnSet
  BY <1>5 DEF QuotaColumn
<1>7. QuotaColumn(type, None) = {}
  BY DEF QuotaColumn
<1> QED BY <1>1, <1>6, <1>7

LEMMA QuotaLimited ==
  ASSUME NEW q, NEW s, NEW podNames, QuotaOK(q)
  PROVE  QuotaOK(WithQuota(q, s, podNames))
<1> DEFINE columns == QuotaColumn(Label(s, "type"), QuotaOf(s.resource, podNames))
           values == Over([a \in columns |-> s.value], q.values)
           resources == IF Label(s, "type") = "hard" THEN Append(q.resources, <<s.resource, s.value>>)
                        ELSE q.resources
           r == [q EXCEPT !.values = values, !.resources = resources]
<1>1. WithQuota(q, s, podNames) = r
  BY DEF WithQuota
<1>2. columns \subseteq QuotaColumnSet
  BY QuotaColumnKnown
<1> HIDE DEF columns, resources
<1>3. DOMAIN values = columns \cup DOMAIN q.values
  BY DEF Over
<1> HIDE DEF values
<1>4. DOMAIN r = DOMAIN q /\ r.values = values
  BY DEF QuotaOK
<1> HIDE DEF r
<1> QED BY <1>1, <1>2, <1>3, <1>4 DEF QuotaOK

\* The handlers of cluster resource quotas and of resource quotas.
LEMMA CrqsGrow ==
  ASSUME NEW cl, NEW s, ClusterOK(cl)
  PROVE  /\ ClusterOK(createCRQ(cl, s)) /\ Grown(cl, createCRQ(cl, s))
         /\ ClusterOK(extractCRQAttributes(cl, s)) /\ Grown(cl, extractCRQAttributes(cl, s))
         /\ ClusterOK(populateLabelMap(cl, s)) /\ Grown(cl, populateLabelMap(cl, s))
         /\ ClusterOK(getExistingCrqQuotas(cl, s)) /\ Grown(cl, getExistingCrqQuotas(cl, s))
<1>1. getCRQ(cl, s) \subseteq DOMAIN cl.crqs
  BY DEF getCRQ
<1>2. \A q \in getCRQ(cl, s) : QuotaOK(cl.crqs[q])
  BY <1>1 DEF ClusterOK
<1>3. ClusterOK(createCRQ(cl, s)) /\ Grown(cl, createCRQ(cl, s))
  <2> DEFINE new == [createTime |-> s.value, labels |-> {}, selector |-> <<>>, namespaces |-> <<>>,
                     resources |-> <<>>, values |-> <<>>]
             f == [x \in {Label(s, "name")} |-> new]
  <2>1. QuotaOK(new)
    <3>1. DOMAIN <<>> = {}
      OBVIOUS
    <3> QED BY <3>1 DEF QuotaOK
  <2>2. createCRQ(cl, s) = [cl EXCEPT !.crqs = Over(f, @)]
    BY DEF createCRQ
  <2> HIDE DEF new
  <2>3. \A x \in DOMAIN f : QuotaOK(f[x])
    BY <2>1
  <2> HIDE DEF f
  <2> QED BY <2>2, <2>3, CrqsChanged
<1>4. ClusterOK(extractCRQAttributes(cl, s)) /\ Grown(cl, extractCRQAttributes(cl, s))
  <2> DEFINE selector == [l \in DOMAIN s \cap {"type", "key", "value_of"} |-> s[l]]
             Selecting(q) ==
               [q EXCEPT !.selector = Over(selector, @),
                         !.namespaces = IF "namespace" \in DOMAIN s THEN Append(@, s.namespace) ELSE @]
             f == [n \in getCRQ(cl, s) |-> Selecting(cl.crqs[n])]
  <2>1. extractCRQAttributes(cl, s) = [cl EXCEPT !.crqs = Over(f, @)]
    BY DEF extractCRQAttributes
  <2> HIDE DEF selector
  <2>2. ASSUME NEW q, QuotaOK(q) PROVE QuotaOK(Selecting(q))
    <3> DEFINE t == Over(selector, q.selector)
               u == IF "namespace" \in DOMAIN s THEN Append(q.namespaces, s.namespace) ELSE q.namespaces
               r == [q EXCEPT !.selector = t, !.namespaces = u]
    <3>1. Selecting(q) = r
      OBVIOUS
    <3> HIDE DEF t, u, Selecting
    <3>2. DOMAIN r = DOMAIN q /\ r.values = q.values
      BY <2>2 DEF QuotaOK
    <3> QED BY <2>2, <3>1, <3>2 DEF QuotaOK
  <2> HIDE DEF Selecting
  <2>3. \A n \in DOMAIN f : QuotaOK(f[n])
    BY <1>2, <2>2
  <2> HIDE DEF f
  <2> QED BY <2>1, <2>3, CrqsChanged
<1>5. ClusterOK(populateLabelMap(cl, s)) /\ Grown(cl, populateLabelMap(cl, s))
  <2> DEFINE Labelled(q) == [q EXCEPT !.labels = @ \cup LabelPairs(s)]
             f == [n \in getCRQ(cl, s) |-> Labelled(cl.crqs[n])]
  <2>1. populateLabelMap(cl, s) = [cl EXCEPT !.crqs = Over(f, @)]
    BY DEF populateLabelMap
  <2>2. ASSUME NEW n \in getCRQ(cl, s) PROVE QuotaOK(f[n])
    <3> DEFINE q == cl.crqs[n]
               t == q.labels \cup LabelPairs(s)
    <3>1. f[n] = [q EXCEPT !.labels = t] /\ QuotaOK(q)
      BY <1>2
    <3> HIDE DEF q, t, f, Labelled
    <3> QED BY <3>1 DEF QuotaOK
  <2>3. DOMAIN f = getCRQ(cl, s)
    OBVIOUS
  <2> HIDE DEF f
  <2> QED BY <2>1, <2>2, <2>3, CrqsChanged
<1>6. ClusterOK(getExistingCrqQuotas(cl, s)) /\ Grown(cl, getExistingCrqQuotas(cl, s))
  <2> DEFINE f == [n \in getCRQ(cl, s) |-> WithQuota(cl.crqs[n], s, {"pods"})]
  <2>1. getExistingCrqQuotas(cl, s) = cl \/ getExistingCrqQuotas(cl, s) = [cl EXCEPT !.crqs = Over(f, @)]
    BY DEF getExistingCrqQuotas
  <2>2. \A n \in DOMAIN f : QuotaOK(f[n])
    BY <1>2, QuotaLimited
  <2> HIDE DEF f
  <2>3. Grown(cl, cl)
    BY DEF Grown
  <2> QED BY <2>1, <2>2, <2>3, CrqsChanged
<1> QED BY <1>3, <1>4, <1>5, <1>6

LEMMA RqsGrow ==
  ASSUME NEW cl, NEW s, ClusterOK(cl)
  PROVE  /\ ClusterOK(getExistingQuotas(cl, s)) /\ Grown(cl, getExistingQuotas(cl, s))
         /\ ClusterOK(getCreationTime(cl, s)) /\ Grown(cl, getCreationTime(cl, s))
<1>1. \E rqs : getExistingQuotas(cl, s) = [cl EXCEPT !.rqs = rqs]
  BY DEF getExistingQuotas
<1>2. \E rqs : getCreationTime(cl, s) = [cl EXCEPT !.rqs = rqs]
  BY DEF getCreationTime
<1> QED BY <1>1, <1>2, RqsChanged

-----------------------------------------------------------------------------
(* Answers *)

KeepingHandlers == {"labels", "taints", "metric", "total", "createCrq", "crqAttributes", "crqLabels",
  "crqQuotas", "rqQuotas", "rqCreated"}

\* A series of any query but the first two forgets nothing.
LEMMA HandleGrows ==
  ASSUME NEW stage, NEW cl, NEW s, ClusterOK(cl), stage.handler \in KeepingHandlers
  PROVE  ClusterOK(Handle(stage, cl, s)) /\ Grown(cl, Handle(stage, cl, s))
<1> DEFINE d == Handle(stage, cl, s)
<1>1. CASE stage.handler = "labels"
  <2>1. d = getNodeMetricString(cl, s)
    BY <1>1 DEF Handle
  <2> QED BY <2>1, LabelsGrow
<1>2. CASE stage.handler = "taints"
  <2>1. d = getNodeTaints(cl, s)
    BY <1>2 DEF Handle
  <2> QED BY <2>1, TaintsGrow
<1>3. CASE stage.handler = "metric"
  <2>1. d = getNodeMetric(stage.arg, NodeLabel(stage.given), cl, s)
    BY <1>3 DEF Handle
  <2> QED BY <2>1, MetricGrows
<1>4. CASE stage.handler = "total"
  <2>1. d = getClusterMetric(stage.arg, cl, s)
    BY <1>4 DEF Handle
  <2> QED BY <2>1, TotalGrows
<1>5. CASE stage.handler = "createCrq"
  <2>1. d = createCRQ(cl, s)
    BY <1>5 DEF Handle
  <2> QED BY <2>1, CrqsGrow
<1>6. CASE stage.handler = "crqAttributes"
  <2>1. d = extractCRQAttributes(cl, s)
    BY <1>6 DEF Handle
  <2> QED BY <2>1, CrqsGrow
<1>7. CASE stage.handler = "crqLabels"
  <2>1. d = populateLabelMap(cl, s)
    BY <1>7 DEF Handle
  <2> QED BY <2>1, CrqsGrow
<1>8. CASE stage.handler = "crqQuotas"
  <2>1. d = getExistingCrqQuotas(cl, s)
    BY <1>8 DEF Handle
  <2> QED BY <2>1, CrqsGrow
<1>9. CASE stage.handler = "rqQuotas"
  <2>1. d = getExistingQuotas(cl, s)
    BY <1>9 DEF Handle
  <2> QED BY <2>1, RqsGrow
<1>10. CASE stage.handler = "rqCreated"
  <2>1. d = getCreationTime(cl, s)
    BY <1>10 DEF Handle
  <2> QED BY <2>1, RqsGrow
<1> QED BY <1>1, <1>2, <1>3, <1>4, <1>5, <1>6, <1>7, <1>8, <1>9, <1>10 DEF KeepingHandlers

\* What is known after each series of an answer.
Handled(f, stage, cl, answer) ==
  /\ f[0] = cl
  /\ \A i \in 1 .. Len(answer) : f[i] = Handle(stage, f[i - 1], answer[i])

LEMMA AnswerHandled ==
  ASSUME NEW stage, NEW cl, NEW answer, IsSequence(answer)
  PROVE  \E f : Handled(f, stage, cl, answer) /\ HandleAll(stage, cl, answer) = f[Len(answer)]
<1> DEFINE n == Len(answer)
           Loop(f, m) == f = [i \in 0 .. m |-> IF i = 0 THEN cl ELSE Handle(stage, f[i - 1], answer[i])]
           S == {m \in Nat : \E f : Loop(f, m)}
<1>1. n \in Nat
  BY DEF IsSequence
<1>2. 0 \in S
  <2> DEFINE f == [i \in 0 .. 0 |-> cl]
  <2>1. f = [i \in 0 .. 0 |-> IF i = 0 THEN cl ELSE Handle(stage, f[i - 1], answer[i])]
    OBVIOUS
  <2> HIDE DEF f
  <2> QED BY <2>1
<1>3. ASSUME NEW m \in Nat, m \in S PROVE m + 1 \in S
  <2>1. PICK f : Loop(f, m)
    BY <1>3
  <2> DEFINE last == Handle(stage, f[m], answer[m + 1])
             g == [i \in 0 .. m + 1 |-> IF i <= m THEN f[i] ELSE last]
  <2>2. ASSUME NEW i \in 0 .. m + 1
        PROVE  g[i] = IF i = 0 THEN cl ELSE Handle(stage, g[i - 1], answer[i])
    <3>1. CASE i = 0
      BY <2>1, <3>1
    <3>2. CASE i \in 1 .. m
      <4>1. i - 1 \in 0 .. m /\ i # 0 /\ i \in 0 .. m
        BY <3>2
      <4>2. g[i] = f[i] /\ g[i - 1] = f[i - 1]
        BY <3>2, <4>1
      <4>3. f[i] = Handle(stage, f[i - 1], answer[i])
        BY <2>1, <4>1
      <4> QED BY <4>1, <4>2, <4>3
    <3>3. CASE i = m + 1
      <4>1. g[m + 1] = last /\ g[m] = f[m] /\ i - 1 = m /\ i # 0
        BY <3>3
      <4> QED BY <3>3, <4>1
    <3> QED BY <3>1, <3>2, <3>3
  <2>3. DOMAIN g = 0 .. m + 1 /\ g = [i \in 0 .. m + 1 |-> g[i]]
    OBVIOUS
  <2> HIDE DEF g
  <2>4. Loop(g, m + 1)
    BY <2>2, <2>3
  <2> QED BY <2>4
<1> HIDE DEF S
<1>4. n \in S
  BY <1>1, <1>2, <1>3, SetInduction
<1>5. PICK e : Loop(e, n)
  BY <1>4 DEF S
<1> DEFINE f == CHOOSE f : Loop(f, n)
<1>6. Loop(f, n)
  BY <1>5
<1>7. HandleAll(stage, cl, answer) = f[n]
  BY DEF HandleAll
<1> HIDE DEF f
<1>8. Handled(f, stage, cl, answer)
  <2>1. f[0] = cl
    BY <1>1, <1>6
  <2>2. ASSUME NEW i \in 1 .. n PROVE f[i] = Handle(stage, f[i - 1], answer[i])
    BY <1>1, <1>6
  <2> QED BY <2>1, <2>2 DEF Handled
<1> QED BY <1>7, <1>8

\* The clusters after an answer of any query but the first two.
LEMMA AnswerGrows ==
  ASSUME NEW stage, NEW cl, NEW answer, IsSequence(answer), ClusterOK(cl),
         stage.handler \in KeepingHandlers, NEW f, Handled(f, stage, cl, answer)
  PROVE  \A i \in 0 .. Len(answer) : ClusterOK(f[i]) /\ Grown(cl, f[i])
<1> DEFINE n == Len(answer)
           S == {i \in 0 .. n : ClusterOK(f[i]) /\ Grown(cl, f[i])}
<1>1. n \in Nat
  BY DEF IsSequence
<1>2. 0 \in S
  <2>1. Grown(cl, cl)
    BY DEF Grown
  <2> QED BY <1>1, <2>1 DEF Handled
<1>3. ASSUME NEW i \in 1 .. n, i - 1 \in S PROVE i \in S
  <2>1. f[i] = Handle(stage, f[i - 1], answer[i])
    BY DEF Handled
  <2>2. ClusterOK(f[i - 1]) /\ Grown(cl, f[i - 1])
    BY <1>3
  <2>3. ClusterOK(f[i]) /\ Grown(f[i - 1], f[i])
    BY <2>1, <2>2, HandleGrows
  <2>4. Grown(cl, f[i])
    BY <2>2, <2>3, GrownTransitive
  <2> QED BY <2>3, <2>4
<1> HIDE DEF S
<1>4. \A i \in 0 .. n : i \in S
  BY <1>1, <1>2, <1>3, TurnsInduction
<1> QED BY <1>4 DEF S

\* What an answer makes known of a cluster is not forgotten in the rest of it.
LEMMA RestGrows ==
  ASSUME NEW stage, NEW cl, NEW answer, IsSequence(answer), ClusterOK(cl),
         stage.handler \in KeepingHandlers, NEW f, Handled(f, stage, cl, answer)
  PROVE  \A j \in 0 .. Len(answer) : \A i \in 0 .. j : Grown(f[i], f[j])
<1> DEFINE n == Len(answer)
           S == {j \in 0 .. n : \A i \in 0 .. j : Grown(f[i], f[j])}
<1>1. n \in Nat
  BY DEF IsSequence
<1>a. ASSUME NEW x PROVE Grown(x, x)
  BY DEF Grown
<1>2. 0 \in S
  BY <1>1, <1>a
<1>3. ASSUME NEW j \in 1 .. n, j - 1 \in S PROVE j \in S
  <2>1. f[j] = Handle(stage, f[j - 1], answer[j])
    BY DEF Handled
  <2>2. ClusterOK(f[j - 1])
    <3>1. j - 1 \in 0 .. n
      BY <1>1
    <3> QED BY <3>1, AnswerGrows
  <2>3. Grown(f[j - 1], f[j])
    BY <2>1, <2>2, HandleGrows
  <2>4. ASSUME NEW i \in 0 .. j PROVE Grown(f[i], f[j])
    <3>1. CASE i = j
      BY <1>a, <3>1
    <3>2. CASE i # j
      <4>1. i \in 0 .. j - 1
        BY <1>1, <3>2
      <4>2. Grown(f[i], f[j - 1])
        BY <1>3, <4>1
      <4> QED BY <2>3, <4>2, GrownTransitive
    <3> QED BY <3>1, <3>2
  <2> QED BY <1>1, <2>4
<1> HIDE DEF S
<1>4. \A j \in 0 .. n : j \in S
  BY <1>1, <1>2, <1>3, TurnsInduction
<1> QED BY <1>4 DEF S

LEMMA AnswerKept ==
  ASSUME NEW stage, NEW cl, NEW answer, IsSequence(answer), ClusterOK(cl),
         stage.handler \in KeepingHandlers
  PROVE  ClusterOK(HandleAll(stage, cl, answer)) /\ Grown(cl, HandleAll(stage, cl, answer))
<1>1. PICK f : Handled(f, stage, cl, answer) /\ HandleAll(stage, cl, answer) = f[Len(answer)]
  BY AnswerHandled
<1>2. Len(answer) \in 0 .. Len(answer)
  BY DEF IsSequence
<1> QED BY <1>1, <1>2, AnswerGrows

\* Every series of a node's metric is recorded, for the nodes known.
LEMMA MetricAnswer ==
  ASSUME NEW stage, NEW cl, NEW answer, IsSequence(answer), ClusterOK(cl), stage.handler = "metric",
         NEW i \in 1 .. Len(answer), NEW n \in getNode(cl, answer[i], NodeLabel(stage.given))
  PROVE  {e.attribute : e \in NodeEffectsOf(stage.arg, answer[i])} \ {None}
            \subseteq DOMAIN HandleAll(stage, cl, answer).nodes[n].values
<1> DEFINE d == HandleAll(stage, cl, answer)
           s == answer[i]
           attributes == {e.attribute : e \in NodeEffectsOf(stage.arg, s)} \ {None}
<1>1. PICK f : Handled(f, stage, cl, answer) /\ d = f[Len(answer)]
  BY AnswerHandled
<1> HIDE DEF d, attributes
<1>2. Len(answer) \in Nat /\ i - 1 \in 0 .. Len(answer) /\ i \in 0 .. Len(answer) /\ Len(answer) \in 0 .. Len(answer)
  BY DEF IsSequence
<1>3. stage.handler \in KeepingHandlers
  BY DEF KeepingHandlers
<1>4. ClusterOK(f[i - 1]) /\ Grown(cl, f[i - 1])
  BY <1>1, <1>2, <1>3, AnswerGrows
<1>5. n \in getNode(f[i - 1], s, NodeLabel(stage.given)) /\ n \in DOMAIN cl.nodes
  BY <1>4 DEF getNode, Grown
<1>6. f[i] = getNodeMetric(stage.arg, NodeLabel(stage.given), f[i - 1], s)
  <2>1. f[i] = Handle(stage, f[i - 1], s)
    BY <1>1 DEF Handled
  <2> QED BY <2>1 DEF Handle
<1>7. attributes \subseteq DOMAIN f[i].nodes[n].values /\ Grown(f[i - 1], f[i])
  BY <1>4, <1>5, <1>6, MetricGrows DEF attributes
<1>8. Grown(f[i], d)
  BY <1>1, <1>2, <1>3, RestGrows
<1>9. n \in DOMAIN f[i].nodes
  BY <1>4, <1>5, <1>7 DEF Grown
<1> QED BY <1>7, <1>8, <1>9 DEF Grown, attributes, d

\* Every value of a cluster that does not depend on the resource is recorded if it
\* answers at all.
LEMMA TotalAnswer ==
  ASSUME NEW stage, NEW cl, NEW answer, IsSequence(answer), ClusterOK(cl), stage.handler = "total",
         answer # <<>>, NEW e \in ClusterEffects, e.metric = stage.arg, e.resource = None
  PROVE  e.attribute \in DOMAIN HandleAll(stage, cl, answer).totals
<1> DEFINE d == HandleAll(stage, cl, answer)
<1>1. PICK f : Handled(f, stage, cl, answer) /\ d = f[Len(answer)]
  BY AnswerHandled
<1> HIDE DEF d
<1>2. Len(answer) \in Nat /\ 1 \in 1 .. Len(answer) /\ 1 \in 0 .. Len(answer) /\ Len(answer) \in 0 .. Len(answer)
  BY DEF IsSequence
<1>3. stage.handler \in KeepingHandlers
  BY DEF KeepingHandlers
<1>4. f[1] = getClusterMetric(stage.arg, cl, answer[1])
  <2>1. f[1] = Handle(stage, f[0], answer[1]) /\ f[0] = cl
    BY <1>1, <1>2 DEF Handled
  <2> QED BY <2>1 DEF Handle
<1>5. e.attribute \in DOMAIN f[1].totals
  BY <1>4, TotalGrows
<1>6. Grown(f[1], d)
  BY <1>1, <1>2, <1>3, RestGrows
<1> QED BY <1>5, <1>6 DEF Grown, d

\* Nodes become known without a change of versions.
LEMMA CreateAnswer ==
  ASSUME NEW stage, NEW cl, NEW answer, IsSequence(answer), ClusterOK(cl), stage.handler = "create"
  PROVE  /\ ClusterOK(HandleAll(stage, cl, answer))
         /\ HandleAll(stage, cl, answer).versions = cl.versions
<1> DEFINE n == Len(answer)
<1>1. PICK f : Handled(f, stage, cl, answer) /\ HandleAll(stage, cl, answer) = f[n]
  BY AnswerHandled
<1> DEFINE S == {i \in 0 .. n : ClusterOK(f[i]) /\ f[i].versions = cl.versions}
<1>2. n \in Nat
  BY DEF IsSequence
<1>3. 0 \in S
  BY <1>1, <1>2 DEF Handled
<1>4. ASSUME NEW i \in 1 .. n, i - 1 \in S PROVE i \in S
  <2>1. f[i] = Handle(stage, f[i - 1], answer[i])
    BY <1>1 DEF Handled
  <2>2. f[i] = createNode(f[i - 1], answer[i])
    BY <2>1 DEF Handle
  <2> QED BY <1>4, <2>2, CreateKeeps
<1> HIDE DEF S
<1>5. \A i \in 0 .. n : i \in S
  BY <1>2, <1>3, <1>4, TurnsInduction
<1>6. n \in S
  BY <1>2, <1>5
<1> QED BY <1>1, <1>6 DEF S

-----------------------------------------------------------------------------
(* Versions *)

\* A list of versions with numbers.
IsVersionList(vs) ==
  /\ IsSequence(vs)
  /\ \A i \in 1 .. Len(vs) : vs[i].major \in Int /\ vs[i].minor \in Int

\* The order of a list of versions is total.
LEMMA OrderTotal ==
  ASSUME NEW vs, IsVersionList(vs), NEW i \in 1 .. Len(vs), NEW j \in 1 .. Len(vs)
  PROVE  /\ i \notin Preceding(vs, i)
         /\ i # j => (i \in Preceding(vs, j) <=> j \notin Preceding(vs, i))
         /\ i \in Preceding(vs, j) => Compare(vs[i], vs[j]) <= 0
<1> DEFINE n == Len(vs)
<1>1. DOMAIN vs = 1 .. n /\ n \in Nat
  BY DEF IsVersionList, IsSequence
<1>2. /\ vs[i].major \in Int /\ vs[i].minor \in Int
      /\ vs[j].major \in Int /\ vs[j].minor \in Int
  BY DEF IsVersionList
<1>3. /\ i \in Preceding(vs, j) <=> Compare(vs[i], vs[j]) < 0 \/ (Compare(vs[i], vs[j]) = 0 /\ i < j)
      /\ j \in Preceding(vs, i) <=> Compare(vs[j], vs[i]) < 0 \/ (Compare(vs[j], vs[i]) = 0 /\ j < i)
      /\ i \in Preceding(vs, i) <=> Compare(vs[i], vs[i]) < 0 \/ (Compare(vs[i], vs[i]) = 0 /\ i < i)
  BY <1>1 DEF Preceding
<1>4. /\ Compare(vs[i], vs[i]) = 0
      /\ Compare(vs[i], vs[j]) \in Int
      /\ Compare(vs[j], vs[i]) = -Compare(vs[i], vs[j])
  BY <1>2 DEF Compare
<1>5. i \in Nat /\ j \in Nat
  BY <1>1
<1> QED BY <1>3, <1>4, <1>5

LEMMA CompareTransitive ==
  ASSUME NEW a, NEW b, NEW c, a.major \in Int, a.minor \in Int, b.major \in Int, b.minor \in Int,
         c.major \in Int, c.minor \in Int
  PROVE  /\ Compare(a, b) <= 0 /\ Compare(b, c) <= 0 => Compare(a, c) <= 0
         /\ Compare(a, b) < 0 /\ Compare(b, c) <= 0 => Compare(a, c) < 0
         /\ Compare(a, b) <= 0 /\ Compare(b, c) < 0 => Compare(a, c) < 0
         /\ Compare(a, b) \in Int /\ Compare(b, c) \in Int /\ Compare(a, c) \in Int
<1> DEFINE i == a.major
           j == a.minor
           k == b.major
           l == b.minor
           m == c.major
           n == c.minor
<1>1. /\ Compare(a, b) = IF i # k THEN i - k ELSE j - l
      /\ Compare(b, c) = IF k # m THEN k - m ELSE l - n
      /\ Compare(a, c) = IF i # m THEN i - m ELSE j - n
  BY DEF Compare
<1>2. i \in Int /\ j \in Int /\ k \in Int /\ l \in Int /\ m \in Int /\ n \in Int
  OBVIOUS
<1> HIDE DEF i, j, k, l, m, n
<1> QED BY <1>1, <1>2

LEMMA OrderTransitive ==
  ASSUME NEW vs, IsVersionList(vs), NEW i \in 1 .. Len(vs), NEW j \in 1 .. Len(vs),
         NEW k \in 1 .. Len(vs), i \in Preceding(vs, j), j \in Preceding(vs, k)
  PROVE  i \in Preceding(vs, k)
<1> DEFINE n == Len(vs)
<1>1. DOMAIN vs = 1 .. n /\ n \in Nat
  BY DEF IsVersionList, IsSequence
<1>2. /\ vs[i].major \in Int /\ vs[i].minor \in Int
      /\ vs[j].major \in Int /\ vs[j].minor \in Int
      /\ vs[k].major \in Int /\ vs[k].minor \in Int
  BY DEF IsVersionList
<1>3. /\ Compare(vs[i], vs[j]) < 0 \/ (Compare(vs[i], vs[j]) = 0 /\ i < j)
      /\ Compare(vs[j], vs[k]) < 0 \/ (Compare(vs[j], vs[k]) = 0 /\ j < k)
      /\ i \in Preceding(vs, k) <=> Compare(vs[i], vs[k]) < 0 \/ (Compare(vs[i], vs[k]) = 0 /\ i < k)
  BY <1>1 DEF Preceding
<1>4. /\ Compare(vs[i], vs[j]) <= 0 /\ Compare(vs[j], vs[k]) <= 0 => Compare(vs[i], vs[k]) <= 0
      /\ Compare(vs[i], vs[j]) < 0 /\ Compare(vs[j], vs[k]) <= 0 => Compare(vs[i], vs[k]) < 0
      /\ Compare(vs[i], vs[j]) <= 0 /\ Compare(vs[j], vs[k]) < 0 => Compare(vs[i], vs[k]) < 0
      /\ Compare(vs[i], vs[j]) \in Int /\ Compare(vs[j], vs[k]) \in Int /\ Compare(vs[i], vs[k]) \in Int
  BY <1>2, CompareTransitive
<1>5. i \in Nat /\ j \in Nat /\ k \in Nat
  BY <1>1
<1> QED BY <1>3, <1>4, <1>5

\* Of the first m of a list of versions, one comes before the others, and one after.
LEMMA FirstAndLast ==
  ASSUME NEW vs, IsVersionList(vs), vs # <<>>
  PROVE  /\ \E i \in 1 .. Len(vs) : \A j \in 1 .. Len(vs) : j \notin Preceding(vs, i)
         /\ \E i \in 1 .. Len(vs) : \A j \in 1 .. Len(vs) : j # i => j \in Preceding(vs, i)
<1> DEFINE n == Len(vs)
           First(m) == \E i \in 1 .. m : \A j \in 1 .. m : j \notin Preceding(vs, i)
           Last(m) == \E i \in 1 .. m : \A j \in 1 .. m : j # i => j \in Preceding(vs, i)
           S == {m \in 0 .. n : m = 0 \/ (First(m) /\ Last(m))}
<1>1. n \in Nat /\ n # 0
  BY DEF IsVersionList, IsSequence
<1>2. 0 \in S
  BY <1>1
<1>3. ASSUME NEW m \in 1 .. n, m - 1 \in S PROVE m \in S
  <2>1. m \notin Preceding(vs, m)
    BY OrderTotal
  <2>2. CASE m = 1
    <3>1. 1 .. m = {1}
      BY <2>2
    <3> QED BY <2>1, <2>2, <3>1
  <2>3. CASE m # 1
    <3>1. First(m - 1) /\ Last(m - 1)
      BY <1>3, <2>3
    <3>2. First(m)
      <4>1. PICK i \in 1 .. m - 1 : \A j \in 1 .. m - 1 : j \notin Preceding(vs, i)
        BY <3>1
      <4>2. i \in 1 .. n /\ i \in 1 .. m /\ i # m /\ m \in 1 .. m
        BY <1>1
      <4>3. CASE m \in Preceding(vs, i)
        <5>1. ASSUME NEW j \in 1 .. m PROVE j \notin Preceding(vs, m)
          <6>1. CASE j = m
            BY <2>1, <6>1
          <6>2. CASE j # m
            <7>1. j \in 1 .. m - 1 /\ j \in 1 .. n
              BY <1>1, <6>2
            <7> QED BY <4>1, <4>2, <4>3, <7>1, OrderTransitive
          <6> QED BY <6>1, <6>2
        <5> QED BY <4>2, <5>1
      <4>4. CASE m \notin Preceding(vs, i)
        <5>1. ASSUME NEW j \in 1 .. m PROVE j \notin Preceding(vs, i)
          <6>1. j = m \/ j \in 1 .. m - 1
            BY <1>1
          <6> QED BY <4>1, <4>4, <6>1
        <5> QED BY <4>2, <5>1
      <4> QED BY <4>3, <4>4
    <3>3. Last(m)
      <4>1. PICK i \in 1 .. m - 1 : \A j \in 1 .. m - 1 : j # i => j \in Preceding(vs, i)
        BY <3>1
      <4>2. i \in 1 .. n /\ i \in 1 .. m /\ i # m /\ m \in 1 .. m
        BY <1>1
      <4>3. CASE m \in Preceding(vs, i)
        <5>1. ASSUME NEW j \in 1 .. m, j # i PROVE j \in Preceding(vs, i)
          <6>1. j = m \/ j \in 1 .. m - 1
            BY <1>1
          <6> QED BY <4>1, <4>3, <5>1, <6>1
        <5> QED BY <4>2, <5>1
      <4>4. CASE m \notin Preceding(vs, i)
        <5>1. i \in Preceding(vs, m)
          BY <4>2, <4>4, OrderTotal
        <5>2. ASSUME NEW j \in 1 .. m, j # m PROVE j \in Preceding(vs, m)
          <6>1. j \in 1 .. m - 1 /\ j \in 1 .. n
            BY <1>1, <5>2
          <6> QED BY <4>1, <4>2, <5>1, <6>1, OrderTransitive
        <5> QED BY <4>2, <5>2
      <4> QED BY <4>3, <4>4
    <3> QED BY <3>2, <3>3
  <2> QED BY <2>2, <2>3
<1> HIDE DEF S
<1>4. \A m \in 0 .. n : m \in S
  BY <1>1, <1>2, <1>3, TurnsInduction
<1>5. n \in S /\ n # 0
  BY <1>1, <1>4
<1> QED BY <1>5 DEF S

\* A sorted list has the versions of the list, the lowest first and the highest last.
LEMMA SortedExtremes ==
  ASSUME NEW vs, IsVersionList(vs), vs # <<>>
  PROVE  LET w == SortStable(vs)
         IN /\ IsSequence(w) /\ Len(w) = Len(vs)
            /\ w[1] \in {vs[i] : i \in 1 .. Len(vs)} /\ w[Len(w)] \in {vs[i] : i \in 1 .. Len(vs)}
            /\ \A j \in 1 .. Len(vs) : Compare(w[1], vs[j]) <= 0 /\ Compare(w[Len(w)], vs[j]) >= 0
<1> DEFINE n == Len(vs)
           w == SortStable(vs)
           Nth(k) == CHOOSE i \in 1 .. n : Cardinality(Preceding(vs, i)) = k - 1
<1>1. n \in Nat /\ n # 0 /\ DOMAIN vs = 1 .. n
  BY DEF IsVersionList, IsSequence
<1>2. w = [k \in 1 .. n |-> vs[Nth(k)]]
  BY <1>1 DEF SortStable
<1>3. IsSequence(w) /\ Len(w) = n
  <2> HIDE DEF Nth
  <2>1. Len(w) = n /\ \A k \in 1 .. n : w[k] = vs[Nth(k)]
    BY <1>1, <1>2
  <2> QED BY <1>1, <1>2, <2>1 DEF IsSequence
<1>4. \A i \in 1 .. n : Preceding(vs, i) \subseteq (1 .. n) \ {i}
  BY <1>1, OrderTotal DEF Preceding
<1>5. IsFiniteSet(1 .. n) /\ Cardinality(1 .. n) = n
  <2>1. IsFiniteSet(1 .. n) /\ Cardinality(1 .. n) = IF 1 > n THEN 0 ELSE n - 1 + 1
    BY <1>1, FS_Interval
  <2> QED BY <1>1, <2>1
<1>6. \A i \in 1 .. n : IsFiniteSet((1 .. n) \ {i}) /\ Cardinality((1 .. n) \ {i}) = n - 1
  BY <1>5, FS_RemoveElement
<1> DEFINE p == Nth(1)
           q == Nth(n)
<1>7. /\ p \in 1 .. n /\ Cardinality(Preceding(vs, p)) = 1 - 1
  <2>1. PICK i \in 1 .. n : \A j \in 1 .. n : j \notin Preceding(vs, i)
    BY FirstAndLast
  <2>2. Preceding(vs, i) = {}
    BY <1>4, <2>1
  <2>3. Cardinality(Preceding(vs, i)) = 1 - 1
    BY <2>2, FS_EmptySet
  <2> QED BY <2>3
<1>8. /\ q \in 1 .. n /\ Cardinality(Preceding(vs, q)) = n - 1
  <2>1. PICK i \in 1 .. n : \A j \in 1 .. n : j # i => j \in Preceding(vs, i)
    BY FirstAndLast
  <2>2. Preceding(vs, i) = (1 .. n) \ {i}
    BY <1>4, <2>1
  <2>3. Cardinality(Preceding(vs, i)) = n - 1
    BY <1>6, <2>2
  <2> QED BY <2>3
<1>9. w[1] = vs[p] /\ w[n] = vs[q]
  <2>1. 1 \in 1 .. n /\ n \in 1 .. n
    BY <1>1
  <2> QED BY <1>2, <2>1
<1> HIDE DEF p, q, w, Nth
<1>10. Preceding(vs, p) = {}
  <2>1. IsFiniteSet(Preceding(vs, p))
    BY <1>4, <1>6, <1>7, FS_Subset
  <2> QED BY <1>7, <2>1, FS_EmptySet
<1>11. Preceding(vs, q) = (1 .. n) \ {q}
  BY <1>4, <1>6, <1>8, FS_Subset
<1>12. ASSUME NEW j \in 1 .. n
       PROVE  Compare(w[1], vs[j]) <= 0 /\ Compare(w[n], vs[j]) >= 0
  <2>1. Compare(vs[p], vs[j]) <= 0
    <3>1. CASE j = p
      <4>1. vs[p].major \in Int /\ vs[p].minor \in Int
        BY <1>7 DEF IsVersionList
      <4> QED BY <3>1, <4>1 DEF Compare
    <3>2. CASE j # p
      BY <1>7, <1>10, <3>2, OrderTotal
    <3> QED BY <3>1, <3>2
  <2>2. Compare(vs[q], vs[j]) >= 0
    <3>1. /\ vs[q].major \in Int /\ vs[q].minor \in Int
          /\ vs[j].major \in Int /\ vs[j].minor \in Int
      BY <1>8 DEF IsVersionList
    <3>2. CASE j = q
      BY <3>1, <3>2 DEF Compare
    <3>3. CASE j # q
      <4>1. Compare(vs[j], vs[q]) <= 0
        BY <1>8, <1>11, <3>3, OrderTotal
      <4> QED BY <3>1, <4>1 DEF Compare
    <3> QED BY <3>2, <3>3
  <2> QED BY <1>9, <2>1, <2>2
<1> QED BY <1>3, <1>7, <1>8, <1>9, <1>12 DEF w

\* The series that tell a version of an instance under these jobs.
Counted(jobs, S) ==
  {s \in S : VersionLabels \subseteq DOMAIN s /\ s.job \in jobs /\ s.instance # "" /\ s.git_version # ""}

\* The versions that series tell are versions, and the same under the same name.
Versioned(S) ==
  \A s \in S : VersionLabels \subseteq DOMAIN s =>
    /\ VersionOf(s) # None /\ s.major \in Int /\ s.minor \in Int
    /\ \A t \in S : VersionLabels \subseteq DOMAIN t /\ s.git_version = t.git_version =>
         VersionOf(s) = VersionOf(t)

\* The list has the versions of these series, in the order they were reported in.
Lists(tv, C) ==
  /\ DOMAIN tv = {"versions", "byName", "sorted"}
  /\ tv.sorted = FALSE
  /\ IsSequence(tv.versions)
  /\ {tv.versions[i] : i \in 1 .. Len(tv.versions)} = {VersionOf(s) : s \in C}

Listed(cv, S) ==
  /\ DOMAIN cv = {"apiServers", "nodes"}
  /\ Lists(cv.apiServers, Counted(ApiServerJobs, S))
  /\ Lists(cv.nodes, Counted(NodeJobs, S))

IsAppend(u, s, e) == u = Append(s, e)
Items(s) == {s[i] : i \in 1 .. Len(s)}

\* A list with an element more, by its elements.
LEMMA Appended ==
  ASSUME NEW s, IsSequence(s), NEW e, NEW u, IsAppend(u, s, e)
  PROVE  IsSequence(u) /\ Items(u) = Items(s) \cup {e}
<1> DEFINE S == {s[i] : i \in 1 .. Len(s)} \cup {e}
           n == Len(s)
<1>1. s \in Seq(S) /\ e \in S
  BY DEF IsSequence
<1> HIDE DEF S
<1>2. /\ u \in Seq(S) /\ Len(u) = n + 1 /\ n \in Nat
      /\ \A i \in 1 .. n : u[i] = s[i]
      /\ u[n + 1] = e
  BY <1>1, AppendProperties DEF IsAppend
<1>3. IsSequence(u)
  <2>1. u \in Seq(S)
    BY <1>2
  <2>2. Len(u) \in Nat /\ u = [i \in 1 .. Len(u) |-> u[i]]
    BY ONLY <2>1
  <2> QED BY <2>2 DEF IsSequence
<1>4. 1 .. n + 1 = (1 .. n) \cup {n + 1}
  BY <1>2
<1> HIDE DEF n
<1>5. {u[i] : i \in 1 .. n + 1} = {s[i] : i \in 1 .. n} \cup {e}
  BY <1>2, <1>4
<1> QED BY <1>2, <1>3, <1>5 DEF n, Items

LEMMA VersionAdded ==
  ASSUME NEW tv, NEW C, NEW s, Lists(tv, C), s.git_version # "", s.instance # "",
         \A t \in C : t.git_version = s.git_version => VersionOf(t) = VersionOf(s)
  PROVE  Lists(Add(tv, s.instance, VersionOf(s)), C \cup {s})
<1> DEFINE v == VersionOf(s)
           vs == tv.versions
           all == IF v.gitVersion \in GitVersions(tv) THEN vs ELSE Append(vs, v)
           i == CHOOSE i \in DOMAIN all : all[i].gitVersion = v.gitVersion
           named == [n \in DOMAIN tv.byName \cup {s.instance} |-> IF n = s.instance THEN all[i] ELSE tv.byName[n]]
           r == [tv EXCEPT !.versions = all, !.byName = named]
<1>1. v.gitVersion = s.git_version
  BY DEF VersionOf
<1>2. Add(tv, s.instance, v) = r
  BY <1>1 DEF Add
<1> HIDE DEF i, named
<1>3. DOMAIN r = DOMAIN tv /\ r.versions = all /\ r.sorted = FALSE
  BY DEF Lists
<1> HIDE DEF r
<1>4. DOMAIN vs = 1 .. Len(vs) /\ IsSequence(vs) /\ {vs[j] : j \in 1 .. Len(vs)} = {VersionOf(t) : t \in C}
  BY DEF Lists, IsSequence
<1>5. CASE v.gitVersion \in GitVersions(tv)
  <2>1. PICK j \in 1 .. Len(vs) : vs[j].gitVersion = v.gitVersion
    BY <1>4, <1>5 DEF GitVersions
  <2>2. PICK t \in C : vs[j] = VersionOf(t)
    BY <1>4
  <2>3. t.git_version = s.git_version
    <3>1. VersionOf(t).gitVersion = t.git_version
      BY DEF VersionOf
    <3> HIDE DEF v
    <3> QED BY <1>1, <2>1, <2>2, <3>1
  <2>4. v = VersionOf(t)
    BY <2>3
  <2> HIDE DEF v
  <2>5. {VersionOf(t_1) : t_1 \in C} = {VersionOf(t_1) : t_1 \in C \cup {s}}
    BY <2>4 DEF v
  <2> QED BY <1>2, <1>3, <1>4, <1>5, <2>5 DEF Lists, v
<1>6. CASE v.gitVersion \notin GitVersions(tv)
  <2>1. IsAppend(all, vs, v)
    BY <1>6 DEF IsAppend
  <2> HIDE DEF all, vs, v
  <2>2. IsSequence(all) /\ {all[j] : j \in 1 .. Len(all)} = {vs[j] : j \in 1 .. Len(vs)} \cup {v}
    <3>1. IsSequence(vs)
      BY <1>4
    <3>2. IsSequence(all) /\ Items(all) = Items(vs) \cup {v}
      BY ONLY <2>1, <3>1, Appended
    <3> QED BY ONLY <3>2 DEF Items
  <2>3. {VersionOf(t) : t \in C \cup {s}} = {VersionOf(t) : t \in C} \cup {v}
    BY DEF v
  <2>4. {all[j] : j \in 1 .. Len(all)} = {VersionOf(t) : t \in C \cup {s}}
    BY <1>4, <2>2, <2>3
  <2>5. DOMAIN r = {"versions", "byName", "sorted"}
    BY <1>3 DEF Lists
  <2>6. Lists(r, C \cup {s})
    BY <1>3, <2>2, <2>4, <2>5 DEF Lists
  <2> QED BY <1>2, <2>6 DEF v
<1> QED BY <1>5, <1>6

LEMMA VersionListed ==
  ASSUME NEW cv, NEW S, NEW s, Listed(cv, S), Versioned(S \cup {s})
  PROVE  Listed(GetVersion(cv, s), S \cup {s})
<1> DEFINE T == S \cup {s}
           d == GetVersion(cv, s)
<1>a. ASSUME NEW jobs, s \notin Counted(jobs, T) PROVE Counted(jobs, T) = Counted(jobs, S)
  BY <1>a DEF Counted
<1>b. ASSUME NEW jobs, s \in Counted(jobs, T) PROVE Counted(jobs, T) = Counted(jobs, S) \cup {s}
  BY <1>b DEF Counted
\* One of the lists after this series.
<1>c. ASSUME NEW tv, NEW jobs, Lists(tv, Counted(jobs, S)), VersionLabels \subseteq DOMAIN s, s.job \in jobs
      PROVE  Lists(Add(tv, s.instance, VersionOf(s)), Counted(jobs, T))
  <2>1. VersionOf(s).gitVersion = s.git_version
    BY DEF VersionOf
  <2>2. CASE s.instance = "" \/ s.git_version = ""
    <3>1. Add(tv, s.instance, VersionOf(s)) = tv
      BY <2>1, <2>2 DEF Add
    <3>2. s \notin Counted(jobs, T)
      BY <2>2 DEF Counted
    <3> QED BY <1>a, <1>c, <3>1, <3>2
  <2>3. CASE s.instance # "" /\ s.git_version # ""
    <3>1. s \in Counted(jobs, T)
      BY <1>c, <2>3 DEF Counted
    <3>2. \A t \in Counted(jobs, S) : t.git_version = s.git_version => VersionOf(t) = VersionOf(s)
      BY <1>c DEF Counted, Versioned
    <3>3. Lists(Add(tv, s.instance, VersionOf(s)), Counted(jobs, S) \cup {s})
      BY <1>c, <2>3, <3>2, VersionAdded
    <3> QED BY <1>b, <3>1, <3>3
  <2> QED BY <2>2, <2>3
<1>1. CASE ~(VersionLabels \subseteq DOMAIN s)
  <2>1. d = cv
    BY <1>1 DEF GetVersion
  <2>2. s \notin Counted(ApiServerJobs, T) /\ s \notin Counted(NodeJobs, T)
    BY <1>1 DEF Counted
  <2> QED BY <1>a, <2>1, <2>2 DEF Listed
<1>2. CASE VersionLabels \subseteq DOMAIN s /\ s.job \in ApiServerJobs
  <2> DEFINE tv == Add(cv.apiServers, s.instance, VersionOf(s))
             r == [cv EXCEPT !.apiServers = tv]
  <2>0. s.job \notin NodeJobs
    BY <1>2 DEF ApiServerJobs, NodeJobs
  <2>1. d = r
    BY <1>2, <2>0 DEF GetVersion
  <2>2. Lists(tv, Counted(ApiServerJobs, T))
    BY <1>2, <1>c DEF Listed
  <2>3. s \notin Counted(NodeJobs, T)
    BY <2>0 DEF Counted
  <2> HIDE DEF tv
  <2>4. DOMAIN r = DOMAIN cv /\ r.apiServers = tv /\ r.nodes = cv.nodes
    BY DEF Listed
  <2> HIDE DEF r, d
  <2>5. Listed(d, T)
    BY <1>a, <2>1, <2>2, <2>3, <2>4 DEF Listed
  <2> QED BY <2>5 DEF d
<1>3. CASE VersionLabels \subseteq DOMAIN s /\ s.job \in NodeJobs
  <2> DEFINE tv == Add(cv.nodes, s.instance, VersionOf(s))
             r == [cv EXCEPT !.nodes = tv]
  <2>0. s.job \notin ApiServerJobs
    BY <1>3 DEF ApiServerJobs, NodeJobs
  <2>1. d = r
    BY <1>3, <2>0 DEF GetVersion
  <2>2. Lists(tv, Counted(NodeJobs, T))
    BY <1>3, <1>c DEF Listed
  <2>3. s \notin Counted(ApiServerJobs, T)
    BY <2>0 DEF Counted
  <2> HIDE DEF tv
  <2>4. DOMAIN r = DOMAIN cv /\ r.nodes = tv /\ r.apiServers = cv.apiServers
    BY DEF Listed
  <2> HIDE DEF r, d
  <2>5. Listed(d, T)
    BY <1>a, <2>1, <2>2, <2>3, <2>4 DEF Listed
  <2> QED BY <2>5 DEF d
<1>4. CASE VersionLabels \subseteq DOMAIN s /\ s.job \notin ApiServerJobs /\ s.job \notin NodeJobs
  <2>1. d = cv
    BY <1>4 DEF GetVersion
  <2>2. s \notin Counted(ApiServerJobs, T) /\ s \notin Counted(NodeJobs, T)
    BY <1>4 DEF Counted
  <2> QED BY <1>a, <2>1, <2>2 DEF Listed
<1> QED BY <1>1, <1>2, <1>3, <1>4

\* A cluster's versions after it has answered.
LEMMA VersionAnswer ==
  ASSUME NEW stage, NEW cl, NEW answer, IsSequence(answer), ClusterOK(cl), stage.handler = "version",
         Listed(cl.versions, {}), Versioned({answer[i] : i \in 1 .. Len(answer)})
  PROVE  /\ ClusterOK(HandleAll(stage, cl, answer))
         /\ Listed(HandleAll(stage, cl, answer).versions, {answer[i] : i \in 1 .. Len(answer)})
<1> DEFINE n == Len(answer)
           First(m) == {answer[i] : i \in 1 .. m}
<1>1. PICK f : Handled(f, stage, cl, answer) /\ HandleAll(stage, cl, answer) = f[n]
  BY AnswerHandled
<1> DEFINE S == {i \in 0 .. n : ClusterOK(f[i]) /\ Listed(f[i].versions, First(i))}
<1>2. n \in Nat
  BY DEF IsSequence
<1>3. 0 \in S
  <2>1. First(0) = {}
    OBVIOUS
  <2>2. f[0] = cl /\ 0 \in 0 .. n
    BY <1>1, <1>2 DEF Handled
  <2>3. ClusterOK(f[0]) /\ Listed(f[0].versions, First(0))
    BY <2>1, <2>2
  <2> QED BY <2>2, <2>3
<1>4. ASSUME NEW i \in 1 .. n, i - 1 \in S PROVE i \in S
  <2> DEFINE s == answer[i]
             versions == GetVersion(f[i - 1].versions, s)
             r == [f[i - 1] EXCEPT !.versions = versions]
  <2>1. f[i] = Handle(stage, f[i - 1], s)
    BY <1>1 DEF Handled
  <2>2. f[i] = r
    BY <2>1 DEF Handle
  <2>3. First(i) = First(i - 1) \cup {s}
    <3>1. 1 .. i = (1 .. i - 1) \cup {i}
      BY <1>2
    <3> QED BY <3>1
  <2>4. First(i) \subseteq First(n)
    BY <1>2
  <2>5. Versioned(First(n))
    OBVIOUS
  <2> HIDE DEF First
  <2>6. Versioned(First(i - 1) \cup {s})
    BY <2>3, <2>4, <2>5 DEF Versioned
  <2>7. Listed(versions, First(i))
    BY <1>4, <2>3, <2>6, VersionListed
  <2> HIDE DEF versions
  <2>8. /\ DOMAIN r = DOMAIN f[i - 1] /\ r.versions = versions /\ r.nodes = f[i - 1].nodes
        /\ r.totals = f[i - 1].totals /\ r.open = f[i - 1].open /\ r.rows = f[i - 1].rows
        /\ r.crqs = f[i - 1].crqs
    BY <1>4 DEF ClusterOK
  <2> HIDE DEF r
  <2>9. ClusterOK(f[i])
    BY <1>4, <2>2, <2>8 DEF ClusterOK
  <2> QED BY <2>2, <2>7, <2>8, <2>9
<1> HIDE DEF S
<1>5. \A i \in 0 .. n : i \in S
  BY <1>2, <1>3, <1>4, TurnsInduction
<1>6. n \in S
  BY <1>2, <1>5
<1> QED BY <1>1, <1>6 DEF S

\* The extremes a list is asked for are those of the versions these series tell.
Extreme(tv, C) ==
  /\ C = {} => GetMinimum(tv) = None /\ GetMaximum(tv) = None
  /\ C # {} =>
       /\ GetMinimum(tv) \in {VersionOf(s) : s \in C}
       /\ GetMaximum(tv) \in {VersionOf(s) : s \in C}
       /\ \A s \in C : Compare(GetMinimum(tv), VersionOf(s)) <= 0 /\ Compare(GetMaximum(tv), VersionOf(s)) >= 0

ExtremesOf(cv, S) ==
  /\ Extreme(cv.apiServers, Counted(ApiServerJobs, S))
  /\ Extreme(cv.nodes, Counted(NodeJobs, S))

LEMMA ListSorted ==
  ASSUME NEW tv, NEW jobs, NEW S, Lists(tv, Counted(jobs, S)), Versioned(S)
  PROVE  Extreme(Sorted(tv), Counted(jobs, S))
<1> DEFINE C == Counted(jobs, S)
           vs == tv.versions
           w == SortStable(vs)
           r == [tv EXCEPT !.sorted = TRUE, !.versions = w]
<1>1. /\ IsSequence(vs) /\ {vs[i] : i \in 1 .. Len(vs)} = {VersionOf(s) : s \in C}
      /\ tv.sorted = FALSE
  BY DEF Lists
<1>2. CASE vs = <<>>
  <2>1. Sorted(tv) = tv
    BY <1>2 DEF Sorted
  <2>2. Len(vs) = 0
    BY <1>2
  <2>3. C = {}
    <3> HIDE DEF C, vs
    <3> QED BY <1>1, <2>2
  <2>4. GetMinimum(tv) = None /\ GetMaximum(tv) = None
    BY <1>2 DEF GetMinimum, GetMaximum
  <2> QED BY <2>1, <2>3, <2>4 DEF Extreme
<1>3. CASE vs # <<>>
  <2>1. Sorted(tv) = r
    BY <1>1, <1>3 DEF Sorted
  <2> HIDE DEF w
  <2>2. r.versions = w
    BY DEF Lists
  <2> HIDE DEF r
  <2>3. IsVersionList(vs)
    <3>1. \A s \in C : VersionOf(s).major \in Int /\ VersionOf(s).minor \in Int
      BY DEF VersionOf, Versioned, Counted
    <3> HIDE DEF C, vs
    <3>2. \A i \in 1 .. Len(vs) : \E s \in C : vs[i] = VersionOf(s)
      BY <1>1
    <3>3. \A i \in 1 .. Len(vs) : vs[i].major \in Int /\ vs[i].minor \in Int
      BY <3>1, <3>2
    <3> QED BY <1>1, <3>3 DEF IsVersionList
  <2> HIDE DEF C, vs
  <2>4. /\ IsSequence(w) /\ Len(w) = Len(vs)
        /\ w[1] \in {VersionOf(s) : s \in C} /\ w[Len(w)] \in {VersionOf(s) : s \in C}
        /\ \A j \in 1 .. Len(vs) : Compare(w[1], vs[j]) <= 0 /\ Compare(w[Len(w)], vs[j]) >= 0
    BY <1>1, <1>3, <2>3, SortedExtremes DEF w
  <2>5. \A s \in C : \E j \in 1 .. Len(vs) : VersionOf(s) = vs[j]
    BY <1>1
  <2>6. Len(vs) \in Nat /\ Len(vs) # 0
    BY <1>1, <1>3 DEF IsSequence
  <2>7. w # <<>>
    <3>1. Len(w) # 0
      BY <2>4, <2>6
    <3> QED BY <3>1
  <2>8. GetMinimum(r) = w[1] /\ GetMaximum(r) = w[Len(w)]
    BY <2>2, <2>7 DEF GetMinimum, GetMaximum
  <2>9. \A s \in C : Compare(w[1], VersionOf(s)) <= 0 /\ Compare(w[Len(w)], VersionOf(s)) >= 0
    BY <2>4, <2>5
  <2>10. C # {}
    BY <2>4
  <2>11. Extreme(r, C)
    BY <2>4, <2>8, <2>9, <2>10 DEF Extreme
  <2> QED BY <2>1, <2>11 DEF C
<1> QED BY <1>2, <1>3

\* What a cluster is asked about its versions, once they are sorted.
LEMMA ExtremesTold ==
  ASSUME NEW cv, NEW S, ExtremesOf(cv, S), Versioned(S),
         NEW apiServers, apiServers = {[major |-> s.major, minor |-> s.minor] : s \in Counted(ApiServerJobs, S)},
         NEW ofNodes, ofNodes = {[major |-> s.major, minor |-> s.minor] : s \in Counted(NodeJobs, S)}
  PROVE  /\ \A v \in apiServers : Compare(GetClusterVersion(cv), v) <= 0
         /\ apiServers = {} => \A v \in ofNodes : Compare(GetClusterVersion(cv), v) >= 0
         /\ \A m \in 20 .. 30 : HasMinimumVersion(cv, 1, m)
              <=> ofNodes # {} /\ \A v \in ofNodes : Compare([major |-> 1, minor |-> m], v) <= 0
<1> DEFINE A == Counted(ApiServerJobs, S)
           N == Counted(NodeJobs, S)
<1>1. ASSUME NEW a, NEW s
      PROVE  /\ Compare(a, [major |-> s.major, minor |-> s.minor]) = Compare(a, VersionOf(s))
  BY DEF Compare, VersionOf
<1>2. ASSUME NEW s \in A \cup N
      PROVE  VersionOf(s) # None /\ VersionOf(s).major \in Int /\ VersionOf(s).minor \in Int
  BY DEF Versioned, Counted, VersionOf
<1>3. Extreme(cv.apiServers, A) /\ Extreme(cv.nodes, N)
  BY DEF ExtremesOf
<1> HIDE DEF A, N
<1>4. ASSUME NEW v \in apiServers PROVE Compare(GetClusterVersion(cv), v) <= 0
  <2>1. PICK s \in A : v = [major |-> s.major, minor |-> s.minor]
    BY DEF A
  <2>2. PICK t \in A : GetMinimum(cv.apiServers) = VersionOf(t)
    BY <1>3, <2>1 DEF Extreme
  <2>3. GetClusterVersion(cv) = GetMinimum(cv.apiServers)
    BY <1>2, <2>2 DEF GetClusterVersion
  <2>4. Compare(GetMinimum(cv.apiServers), VersionOf(s)) <= 0
    BY <1>3 DEF Extreme
  <2> QED BY <1>1, <2>1, <2>3, <2>4
<1>5. ASSUME apiServers = {}, NEW v \in ofNodes PROVE Compare(GetClusterVersion(cv), v) >= 0
  <2>1. PICK s \in N : v = [major |-> s.major, minor |-> s.minor]
    BY DEF N
  <2>2. A = {}
    <3>1. ASSUME NEW t \in A PROVE FALSE
      <4>1. [major |-> t.major, minor |-> t.minor] \in apiServers
        BY DEF A
      <4> QED BY <1>5, <4>1
    <3> QED BY <3>1
  <2>3. GetClusterVersion(cv) = GetMaximum(cv.nodes)
    BY <1>3, <2>2 DEF GetClusterVersion, Extreme
  <2>4. Compare(GetMaximum(cv.nodes), VersionOf(s)) >= 0
    BY <1>3 DEF Extreme
  <2> QED BY <1>1, <2>1, <2>3, <2>4
<1>6. ASSUME NEW m \in 20 .. 30
      PROVE  HasMinimumVersion(cv, 1, m)
               <=> ofNodes # {} /\ \A v \in ofNodes : Compare([major |-> 1, minor |-> m], v) <= 0
  <2> DEFINE least == [major |-> 1, minor |-> m]
             min == GetMinimum(cv.nodes)
  <2>1. HasMinimumVersion(cv, 1, m) <=> min # None /\ Compare(least, min) <= 0
    BY DEF HasMinimumVersion
  <2>2. CASE N = {}
    <3>1. ofNodes = {}
      BY <2>2 DEF N
    <3>2. min = None
      BY <1>3, <2>2 DEF Extreme
    <3> HIDE DEF least
    <3> QED BY <2>1, <3>1, <3>2
  <2>3. CASE N # {}
    <3>1. PICK t \in N : min = VersionOf(t)
      BY <1>3, <2>3 DEF Extreme
    <3>2. min # None /\ min.major \in Int /\ min.minor \in Int
      BY <1>2, <3>1
    <3>3. least.major \in Int /\ least.minor \in Int
      OBVIOUS
    <3>4. \A s \in N : Compare(min, VersionOf(s)) <= 0
      BY <1>3 DEF Extreme
    <3> HIDE DEF least, min
    <3>5. ASSUME Compare(least, min) <= 0, NEW v \in ofNodes PROVE Compare(least, v) <= 0
      <4>1. PICK s \in N : v = [major |-> s.major, minor |-> s.minor]
        BY DEF N
      <4>2. Compare(least, VersionOf(s)) <= 0
        BY <1>2, <3>2, <3>3, <3>4, <3>5, CompareTransitive
      <4> QED BY <1>1, <4>1, <4>2
    <3>6. ASSUME \A v \in ofNodes : Compare(least, v) <= 0 PROVE Compare(least, min) <= 0
      <4>1. [major |-> t.major, minor |-> t.minor] \in ofNodes
        BY DEF N
      <4>2. Compare(least, [major |-> t.major, minor |-> t.minor]) <= 0
        BY <3>6, <4>1
      <4> QED BY <1>1, <3>1, <4>2
    <3>7. ofNodes # {}
      BY <2>3 DEF N
    <3> QED BY <2>1, <3>2, <3>5, <3>6, <3>7 DEF least
  <2> QED BY <2>2, <2>3
<1> QED BY <1>4, <1>5, <1>6

-----------------------------------------------------------------------------
(* The stages, one by one *)

Generic == {"capacity", "allocatable", "limits", "requests"}

StoringHandlers == KeepingHandlers \cup {"exporter", "resetWriters", "files", "calls"}

\* What is used of any stage: where indicators are counted, where a collector may
\* return, and that only the first stages can make nodes and versions known.
Suits(i, st) ==
  /\ st.arg \in Generic => i \in {20, 24, 29, 32, 43, 46}
  /\ st.given[1] = "needed" => i \in {53, 61}
  /\ i \notin {1, 2, 3} => st.handler \in StoringHandlers

GroupSuits(n, g, m) == \A i \in 1 .. m : Suits(n + i, g[i])

LEMMA GroupsSuit ==
  /\ GroupSuits(0, VersionStages, 2) /\ GroupSuits(2, NodeStages, 4)
  /\ GroupSuits(6, ExporterStages, 5) /\ GroupSuits(11, MeasureStages, 8)
  /\ GroupSuits(19, ResourceStages, 16) /\ GroupSuits(35, NodeOutputStages, 7)
  /\ GroupSuits(42, ClusterStages, 10) /\ GroupSuits(52, CrqStages, 8)
  /\ GroupSuits(60, RqStages, 5)
<1> USE DEF Suits, Generic, StoringHandlers, KeepingHandlers, Stage, Asked, Legacy, Calls, Files, Wrapped
<1>1. Suits(1, VersionStages[1]) /\ Suits(2, VersionStages[2])
  BY DEF VersionStages
<1>2. /\ Suits(3, NodeStages[1]) /\ Suits(4, NodeStages[2])
      /\ Suits(5, NodeStages[3]) /\ Suits(6, NodeStages[4])
  BY DEF NodeStages
<1>3. /\ Suits(7, ExporterStages[1]) /\ Suits(8, ExporterStages[2])
      /\ Suits(9, ExporterStages[3]) /\ Suits(10, ExporterStages[4])
  BY DEF ExporterStages
<1>4. Suits(11, ExporterStages[5])
  BY DEF ExporterStages
<1>5. /\ Suits(12, MeasureStages[1]) /\ Suits(13, MeasureStages[2])
      /\ Suits(14, MeasureStages[3]) /\ Suits(15, MeasureStages[4])
  BY DEF MeasureStages
<1>6. /\ Suits(16, MeasureStages[5]) /\ Suits(17, MeasureStages[6])
      /\ Suits(18, MeasureStages[7]) /\ Suits(19, MeasureStages[8])
  BY DEF MeasureStages
<1>7. /\ Suits(20, ResourceStages[1]) /\ Suits(21, ResourceStages[2])
      /\ Suits(22, ResourceStages[3]) /\ Suits(23, ResourceStages[4])
  BY DEF ResourceStages
<1>8. /\ Suits(24, ResourceStages[5]) /\ Suits(25, ResourceStages[6])
      /\ Suits(26, ResourceStages[7]) /\ Suits(27, ResourceStages[8])
  BY DEF ResourceStages
<1>9. /\ Suits(28, ResourceStages[9]) /\ Suits(29, ResourceStages[10])
      /\ Suits(30, ResourceStages[11]) /\ Suits(31, ResourceStages[12])
  BY DEF ResourceStages
<1>10. /\ Suits(32, ResourceStages[13]) /\ Suits(33, ResourceStages[14])
       /\ Suits(34, ResourceStages[15]) /\ Suits(35, ResourceStages[16])
  BY DEF ResourceStages
<1>11. /\ Suits(36, NodeOutputStages[1]) /\ Suits(37, NodeOutputStages[2])
       /\ Suits(38, NodeOutputStages[3]) /\ Suits(39, NodeOutputStages[4])
  BY DEF NodeOutputStages
<1>12. /\ Suits(40, NodeOutputStages[5]) /\ Suits(41, NodeOutputStages[6])
       /\ Suits(42, NodeOutputStages[7])
  BY DEF NodeOutputStages
<1>13. /\ Suits(43, ClusterStages[1]) /\ Suits(44, ClusterStages[2])
       /\ Suits(45, ClusterStages[3]) /\ Suits(46, ClusterStages[4])
  BY DEF ClusterStages
<1>14. /\ Suits(47, ClusterStages[5]) /\ Suits(48, ClusterStages[6])
       /\ Suits(49, ClusterStages[7]) /\ Suits(50, ClusterStages[8])
  BY DEF ClusterStages
<1>15. Suits(51, ClusterStages[9]) /\ Suits(52, ClusterStages[10])
  BY DEF ClusterStages
<1>16. /\ Suits(53, CrqStages[1]) /\ Suits(54, CrqStages[2])
       /\ Suits(55, CrqStages[3]) /\ Suits(56, CrqStages[4])
  BY DEF CrqStages
<1>17. /\ Suits(57, CrqStages[5]) /\ Suits(58, CrqStages[6])
       /\ Suits(59, CrqStages[7]) /\ Suits(60, CrqStages[8])
  BY DEF CrqStages
<1>18. /\ Suits(61, RqStages[1]) /\ Suits(62, RqStages[2])
       /\ Suits(63, RqStages[3]) /\ Suits(64, RqStages[4])
  BY DEF RqStages
<1>19. Suits(65, RqStages[5])
  BY DEF RqStages
<1> HIDE DEF Suits, Generic, StoringHandlers, KeepingHandlers, Stage, Asked, Legacy, Calls, Files, Wrapped
<1>20. GroupSuits(0, VersionStages, 2)
  BY <1>1 DEF GroupSuits
<1>21. GroupSuits(2, NodeStages, 4)
  BY <1>2 DEF GroupSuits
<1>22. GroupSuits(6, ExporterStages, 5)
  BY <1>3, <1>4 DEF GroupSuits
<1>23. GroupSuits(11, MeasureStages, 8)
  BY <1>5, <1>6 DEF GroupSuits
<1>24. GroupSuits(19, ResourceStages, 16)
  BY <1>7, <1>8, <1>9, <1>10 DEF GroupSuits
<1>25. GroupSuits(35, NodeOutputStages, 7)
  BY <1>11, <1>12 DEF GroupSuits
<1>26. GroupSuits(42, ClusterStages, 10)
  BY <1>13, <1>14, <1>15 DEF GroupSuits
<1>27. GroupSuits(52, CrqStages, 8)
  BY <1>16, <1>17 DEF GroupSuits
<1>28. GroupSuits(60, RqStages, 5)
  BY <1>18, <1>19 DEF GroupSuits
<1> QED BY <1>20, <1>21, <1>22, <1>23, <1>24, <1>25, <1>26, <1>27, <1>28

LEMMA StagesSuit ==
  /\ Len(Stages) = 65
  /\ \A i \in 1 .. 65 : Suits(i, Stages[i])
<1>1. Len(Stages) = 65
  BY Layout DEF Long
<1>a. ASSUME NEW n \in Nat, NEW g, NEW m \in Nat, Holds(Stages, n, g, m), GroupSuits(n, g, m),
             NEW i \in n + 1 .. n + m
      PROVE  Suits(i, Stages[i])
  <2> DEFINE j == i - n
  <2>1. j \in 1 .. m /\ n + j = i
    OBVIOUS
  <2> HIDE DEF j
  <2>2. Suits(n + j, g[j]) /\ Stages[n + j] = g[j]
    BY <1>a, <2>1 DEF Holds, GroupSuits
  <2> QED BY <2>1, <2>2
<1> DEFINE Good(i) == Suits(i, Stages[i])
<1> HIDE DEF Good
<1>b. ASSUME NEW n \in Nat, NEW g, NEW m \in Nat, Holds(Stages, n, g, m), GroupSuits(n, g, m)
      PROVE  \A i \in n + 1 .. n + m : Good(i)
  BY <1>a, <1>b DEF Good
<1>2. \A i \in 0 + 1 .. 0 + 2 : Good(i)
  BY ONLY <1>b, Layout, GroupsSuit
<1>3. \A i \in 2 + 1 .. 2 + 4 : Good(i)
  BY ONLY <1>b, Layout, GroupsSuit
<1>4. \A i \in 6 + 1 .. 6 + 5 : Good(i)
  BY ONLY <1>b, Layout, GroupsSuit
<1>5. \A i \in 11 + 1 .. 11 + 8 : Good(i)
  BY ONLY <1>b, Layout, GroupsSuit
<1>6. \A i \in 19 + 1 .. 19 + 16 : Good(i)
  BY ONLY <1>b, Layout, GroupsSuit
<1>7. \A i \in 35 + 1 .. 35 + 7 : Good(i)
  BY ONLY <1>b, Layout, GroupsSuit
<1>8. \A i \in 42 + 1 .. 42 + 10 : Good(i)
  BY ONLY <1>b, Layout, GroupsSuit
<1>9. \A i \in 52 + 1 .. 52 + 8 : Good(i)
  BY ONLY <1>b, Layout, GroupsSuit
<1>10. \A i \in 60 + 1 .. 60 + 5 : Good(i)
  BY ONLY <1>b, Layout, GroupsSuit
<1>11. \A i \in 1 .. 65 : Good(i)
  BY ONLY <1>2, <1>3, <1>4, <1>5, <1>6, <1>7, <1>8, <1>9, <1>10
<1> QED BY <1>1, <1>11 DEF Good

\* The stages the properties are about.
LEMMA Placed ==
  /\ Stages[1] = Asked("version", "buildInfo", "version", "")
  /\ Stages[2] = Asked("version", "", "log", "")
  /\ Stages[3] = Asked("node", "nodeInfo", "create", "")
  /\ Stages[7] = Asked("node", "nodeExporter", "exporter", "node")
  /\ Stages[20] = Asked("node", "capacity", "metric", "capacity")
  /\ Stages[21] = Legacy("node", "cpuCapacity", "capacity")
  /\ Stages[22] = Legacy("node", "memCapacity", "capacity")
  /\ Stages[23] = Legacy("node", "podsCapacity", "capacity")
  /\ Stages[24] = Asked("node", "allocatable", "metric", "allocatable")
  /\ Stages[25] = Legacy("node", "cpuAllocatable", "allocatable")
  /\ Stages[26] = Legacy("node", "memAllocatable", "allocatable")
  /\ Stages[27] = Legacy("node", "podsAllocatable", "allocatable")
  /\ Stages[29] = Asked("node", "limits", "metric", "limits")
  /\ Stages[30] = Legacy("node", "cpuLimit", "limits")
  /\ Stages[31] = Legacy("node", "memLimit", "limits")
  /\ Stages[32] = Asked("node", "requests", "metric", "requests")
  /\ Stages[33] = Legacy("node", "cpuRequest", "requests")
  /\ Stages[34] = Legacy("node", "memRequest", "requests")
  /\ Stages[38] = Calls("node", "reservation", <<"always">>)
  /\ Stages[42] = Calls("node", "wrappers", <<"exporter", "node">>)
  /\ Stages[43] = Asked("cluster", "limits", "total", "limits")
  /\ Stages[44] = Stage("cluster", "cpuLimit", "total", "cpuLimit", <<"missing", "limits">>)
  /\ Stages[45] = Stage("cluster", "memLimit", "total", "memLimit", <<"missing", "limits">>)
  /\ Stages[46] = Asked("cluster", "requests", "total", "requests")
  /\ Stages[47] = Stage("cluster", "cpuRequest", "total", "cpuRequest", <<"missing", "requests">>)
  /\ Stages[48] = Stage("cluster", "memRequest", "total", "memRequest", <<"missing", "requests">>)
  /\ Stages[51] = Calls("cluster", "conditional", <<"always">>)
  /\ Stages[52] = Calls("cluster", "wrappers", <<"exporter", "node">>)
<1> HIDE DEF Asked, Legacy, Calls, Stage
<1>1. \A i \in 1 .. 2 : Stages[0 + i] = VersionStages[i]
  BY Layout DEF Holds
<1>2. \A i \in 1 .. 4 : Stages[2 + i] = NodeStages[i]
  BY Layout DEF Holds
<1>3. \A i \in 1 .. 5 : Stages[6 + i] = ExporterStages[i]
  BY Layout DEF Holds
<1>4. \A i \in 1 .. 16 : Stages[19 + i] = ResourceStages[i]
  BY Layout DEF Holds
<1>5. \A i \in 1 .. 7 : Stages[35 + i] = NodeOutputStages[i]
  BY Layout DEF Holds
<1>6. \A i \in 1 .. 10 : Stages[42 + i] = ClusterStages[i]
  BY Layout DEF Holds
<1>7. Stages[1] = VersionStages[1] /\ Stages[2] = VersionStages[2]
  BY <1>1
<1>8. Stages[3] = NodeStages[1] /\ Stages[7] = ExporterStages[1]
  BY <1>2, <1>3
<1>9. /\ Stages[20] = ResourceStages[1] /\ Stages[21] = ResourceStages[2] /\ Stages[22] = ResourceStages[3]
      /\ Stages[23] = ResourceStages[4] /\ Stages[24] = ResourceStages[5] /\ Stages[25] = ResourceStages[6]
      /\ Stages[26] = ResourceStages[7] /\ Stages[27] = ResourceStages[8] /\ Stages[29] = ResourceStages[10]
      /\ Stages[30] = ResourceStages[11] /\ Stages[31] = ResourceStages[12] /\ Stages[32] = ResourceStages[13]
      /\ Stages[33] = ResourceStages[14] /\ Stages[34] = ResourceStages[15]
  BY <1>4
<1>10. Stages[38] = NodeOutputStages[3] /\ Stages[42] = NodeOutputStages[7]
  BY <1>5
<1>11. /\ Stages[43] = ClusterStages[1] /\ Stages[44] = ClusterStages[2] /\ Stages[45] = ClusterStages[3]
       /\ Stages[46] = ClusterStages[4] /\ Stages[47] = ClusterStages[5] /\ Stages[48] = ClusterStages[6]
       /\ Stages[51] = ClusterStages[9] /\ Stages[52] = ClusterStages[10]
  BY <1>6
<1>12. VersionStages[1] = Asked("version", "buildInfo", "version", "") /\ VersionStages[2] = Asked("version", "", "log", "")
  BY DEF VersionStages
<1>13. NodeStages[1] = Asked("node", "nodeInfo", "create", "")
  BY DEF NodeStages
<1>14. ExporterStages[1] = Asked("node", "nodeExporter", "exporter", "node")
  BY DEF ExporterStages
<1>15. /\ ResourceStages[1] = Asked("node", "capacity", "metric", "capacity")
       /\ ResourceStages[2] = Legacy("node", "cpuCapacity", "capacity")
       /\ ResourceStages[3] = Legacy("node", "memCapacity", "capacity")
       /\ ResourceStages[4] = Legacy("node", "podsCapacity", "capacity")
       /\ ResourceStages[5] = Asked("node", "allocatable", "metric", "allocatable")
       /\ ResourceStages[6] = Legacy("node", "cpuAllocatable", "allocatable")
       /\ ResourceStages[7] = Legacy("node", "memAllocatable", "allocatable")
       /\ ResourceStages[8] = Legacy("node", "podsAllocatable", "allocatable")
  BY DEF ResourceStages
<1>16. /\ ResourceStages[10] = Asked("node", "limits", "metric", "limits")
       /\ ResourceStages[11] = Legacy("node", "cpuLimit", "limits")
       /\ ResourceStages[12] = Legacy("node", "memLimit", "limits")
       /\ ResourceStages[13] = Asked("node", "requests", "metric", "requests")
       /\ ResourceStages[14] = Legacy("node", "cpuRequest", "requests")
       /\ ResourceStages[15] = Legacy("node", "memRequest", "requests")
  BY DEF ResourceStages
<1>17. /\ NodeOutputStages[3] = Calls("node", "reservation", <<"always">>)
       /\ NodeOutputStages[7] = Calls("node", "wrappers", <<"exporter", "node">>)
  BY DEF NodeOutputStages
<1>18. /\ ClusterStages[1] = Asked("cluster", "limits", "total", "limits")
       /\ ClusterStages[2] = Stage("cluster", "cpuLimit", "total", "cpuLimit", <<"missing", "limits">>)
       /\ ClusterStages[3] = Stage("cluster", "memLimit", "total", "memLimit", <<"missing", "limits">>)
       /\ ClusterStages[4] = Asked("cluster", "requests", "total", "requests")
       /\ ClusterStages[5] = Stage("cluster", "cpuRequest", "total", "cpuRequest", <<"missing", "requests">>)
       /\ ClusterStages[6] = Stage("cluster", "memRequest", "total", "memRequest", <<"missing", "requests">>)
       /\ ClusterStages[9] = Calls("cluster", "conditional", <<"always">>)
       /\ ClusterStages[10] = Calls("cluster", "wrappers", <<"exporter", "node">>)
  BY DEF ClusterStages
<1> QED
  BY ONLY <1>7, <1>8, <1>9, <1>10, <1>11, <1>12, <1>13, <1>14, <1>15, <1>16, <1>17, <1>18

CountingStages == {20, 24, 29, 32, 43, 46}
LegacyNodeStages == {21, 22, 23, 25, 26, 27, 30, 31, 33, 34}
LegacyTotalStages == {44, 45, 47, 48}

Metrics == {"node", "cluster"} \X Generic
MetricAt(i) == <<Stages[i].part, Stages[i].arg>>

\* What the clusters are asked at a stage.
QueryOf(part, query) == IF part = "cluster" THEN ClusterQuery(query) ELSE query
QueryAt(i) == QueryOf(Stages[i].part, Stages[i].query)

\* Each metric is counted at most at one stage, whose query all clusters are asked.
CountsAt(i, part, metric) ==
  /\ Stages[i].part = part /\ Stages[i].arg = metric /\ Stages[i].query = metric
  /\ Stages[i].given[1] = "always" /\ Stages[i].handler \in {"metric", "total"}

LEMMA CountingPlaced ==
  /\ CountsAt(20, "node", "capacity") /\ CountsAt(24, "node", "allocatable")
  /\ CountsAt(29, "node", "limits") /\ CountsAt(32, "node", "requests")
  /\ CountsAt(43, "cluster", "limits") /\ CountsAt(46, "cluster", "requests")
<1>1. ASSUME NEW i, NEW part, NEW metric, NEW handler \in {"metric", "total"},
             Stages[i] = Asked(part, metric, handler, metric)
      PROVE  CountsAt(i, part, metric)
  BY <1>1 DEF CountsAt, Asked, Stage
<1> QED BY <1>1, Placed

LEMMA CountingOnce ==
  /\ \A i \in 1 .. 65 : MetricAt(i) \in Metrics => i \in CountingStages
  /\ \A i \in CountingStages : i \in 1 .. 65 /\ MetricAt(i) \in Metrics
  /\ \A i \in CountingStages : \A j \in CountingStages : MetricAt(i) = MetricAt(j) => i = j
<1>1. \A i \in 1 .. 65 : MetricAt(i) \in Metrics => i \in CountingStages
  BY StagesSuit DEF Suits, MetricAt, Metrics, CountingStages
<1>2. /\ MetricAt(20) = <<"node", "capacity">> /\ MetricAt(24) = <<"node", "allocatable">>
      /\ MetricAt(29) = <<"node", "limits">> /\ MetricAt(32) = <<"node", "requests">>
      /\ MetricAt(43) = <<"cluster", "limits">> /\ MetricAt(46) = <<"cluster", "requests">>
  BY CountingPlaced DEF CountsAt, MetricAt
<1>3. \A i \in CountingStages : i \in 1 .. 65 /\ MetricAt(i) \in Metrics
  BY <1>2 DEF CountingStages, Metrics, Generic
<1>4. \A i \in CountingStages : \A j \in CountingStages : MetricAt(i) = MetricAt(j) => i = j
  BY <1>2 DEF CountingStages
<1> QED BY <1>1, <1>3, <1>4

\* A legacy query is put if a count says that some cluster did not answer the
\* generic one.
LegacyAt(i, part, handler, query, generic) ==
  /\ Stages[i].part = part /\ Stages[i].handler = handler
  /\ Stages[i].query = query /\ Stages[i].arg = query
  /\ Stages[i].given[1] = "missing" /\ Stages[i].given[2] = generic
  /\ query \notin Generic
  /\ \E j \in CountingStages : j < i /\ CountsAt(j, part, generic)

LEMMA LegacyPlaced ==
  /\ LegacyAt(21, "node", "metric", "cpuCapacity", "capacity")
  /\ LegacyAt(22, "node", "metric", "memCapacity", "capacity")
  /\ LegacyAt(23, "node", "metric", "podsCapacity", "capacity")
  /\ LegacyAt(25, "node", "metric", "cpuAllocatable", "allocatable")
  /\ LegacyAt(26, "node", "metric", "memAllocatable", "allocatable")
  /\ LegacyAt(27, "node", "metric", "podsAllocatable", "allocatable")
  /\ LegacyAt(30, "node", "metric", "cpuLimit", "limits")
  /\ LegacyAt(31, "node", "metric", "memLimit", "limits")
  /\ LegacyAt(33, "node", "metric", "cpuRequest", "requests")
  /\ LegacyAt(34, "node", "metric", "memRequest", "requests")
  /\ LegacyAt(44, "cluster", "total", "cpuLimit", "limits")
  /\ LegacyAt(45, "cluster", "total", "memLimit", "limits")
  /\ LegacyAt(47, "cluster", "total", "cpuRequest", "requests")
  /\ LegacyAt(48, "cluster", "total", "memRequest", "requests")
<1>1. /\ \A i \in {21, 22, 23} : \E j \in CountingStages : j < i /\ CountsAt(j, "node", "capacity")
      /\ \A i \in {25, 26, 27} : \E j \in CountingStages : j < i /\ CountsAt(j, "node", "allocatable")
      /\ \A i \in {30, 31} : \E j \in CountingStages : j < i /\ CountsAt(j, "node", "limits")
      /\ \A i \in {33, 34} : \E j \in CountingStages : j < i /\ CountsAt(j, "node", "requests")
      /\ \A i \in {44, 45} : \E j \in CountingStages : j < i /\ CountsAt(j, "cluster", "limits")
      /\ \A i \in {47, 48} : \E j \in CountingStages : j < i /\ CountsAt(j, "cluster", "requests")
  BY CountingPlaced DEF CountingStages
<1> DEFINE Legal(i, part, handler, query, generic) ==
             /\ Stages[i].part = part /\ Stages[i].handler = handler
             /\ Stages[i].query = query /\ Stages[i].arg = query
             /\ Stages[i].given[1] = "missing" /\ Stages[i].given[2] = generic
             /\ query \notin Generic
<1>a. ASSUME NEW i, NEW query, NEW generic, Stages[i] = Legacy("node", query, generic), query \notin Generic
      PROVE  Legal(i, "node", "metric", query, generic)
  BY <1>a DEF Legacy, Stage
<1>b. ASSUME NEW i, NEW query, NEW generic, query \notin Generic,
             Stages[i] = Stage("cluster", query, "total", query, <<"missing", generic>>)
      PROVE  Legal(i, "cluster", "total", query, generic)
  BY <1>b DEF Stage
<1>c. /\ "cpuCapacity" \notin Generic /\ "memCapacity" \notin Generic /\ "podsCapacity" \notin Generic
      /\ "cpuAllocatable" \notin Generic /\ "memAllocatable" \notin Generic /\ "podsAllocatable" \notin Generic
      /\ "cpuLimit" \notin Generic /\ "memLimit" \notin Generic
      /\ "cpuRequest" \notin Generic /\ "memRequest" \notin Generic
  BY DEF Generic
<1> HIDE DEF Legal
<1>2. /\ Legal(21, "node", "metric", "cpuCapacity", "capacity")
      /\ Legal(22, "node", "metric", "memCapacity", "capacity")
      /\ Legal(23, "node", "metric", "podsCapacity", "capacity")
      /\ Legal(25, "node", "metric", "cpuAllocatable", "allocatable")
      /\ Legal(26, "node", "metric", "memAllocatable", "allocatable")
      /\ Legal(27, "node", "metric", "podsAllocatable", "allocatable")
      /\ Legal(30, "node", "metric", "cpuLimit", "limits")
      /\ Legal(31, "node", "metric", "memLimit", "limits")
      /\ Legal(33, "node", "metric", "cpuRequest", "requests")
      /\ Legal(34, "node", "metric", "memRequest", "requests")
  BY <1>a, <1>c, Placed
<1>3. /\ Legal(44, "cluster", "total", "cpuLimit", "limits")
      /\ Legal(45, "cluster", "total", "memLimit", "limits")
      /\ Legal(47, "cluster", "total", "cpuRequest", "requests")
      /\ Legal(48, "cluster", "total", "memRequest", "requests")
  BY <1>b, <1>c, Placed
<1>4. ASSUME NEW i, NEW part, NEW handler, NEW query, NEW generic,
             Legal(i, part, handler, query, generic),
             \E j \in CountingStages : j < i /\ CountsAt(j, part, generic)
      PROVE  LegacyAt(i, part, handler, query, generic)
  BY <1>4 DEF LegacyAt, Legal
<1> QED BY <1>1, <1>2, <1>3, <1>4

LEMMA LegacyStages ==
  /\ \A i \in LegacyNodeStages : i \in 21 .. 34 /\ \E query, generic : LegacyAt(i, "node", "metric", query, generic)
  /\ \A i \in LegacyTotalStages : i \in 44 .. 48 /\ \E query, generic : LegacyAt(i, "cluster", "total", query, generic)
  /\ \A generic \in DOMAIN LegacyOf : \A query \in LegacyOf[generic] :
       \E i \in LegacyNodeStages : LegacyAt(i, "node", "metric", query, generic)
  /\ \A generic \in {"limits", "requests"} : \A query \in LegacyOf[generic] :
       \E i \in LegacyTotalStages : LegacyAt(i, "cluster", "total", query, generic)
<1>1. /\ \A i \in LegacyNodeStages : i \in 21 .. 34 /\ \E query, generic : LegacyAt(i, "node", "metric", query, generic)
      /\ \A i \in LegacyTotalStages : i \in 44 .. 48 /\ \E query, generic : LegacyAt(i, "cluster", "total", query, generic)
  BY LegacyPlaced DEF LegacyNodeStages, LegacyTotalStages
<1>2. /\ DOMAIN LegacyOf = {"capacity", "allocatable", "limits", "requests"}
      /\ LegacyOf["capacity"] = {"cpuCapacity", "memCapacity", "podsCapacity"}
      /\ LegacyOf["allocatable"] = {"cpuAllocatable", "memAllocatable", "podsAllocatable"}
      /\ LegacyOf["limits"] = {"cpuLimit", "memLimit"}
      /\ LegacyOf["requests"] = {"cpuRequest", "memRequest"}
  BY DEF LegacyOf
<1>3. \A generic \in DOMAIN LegacyOf : \A query \in LegacyOf[generic] :
       \E i \in LegacyNodeStages : LegacyAt(i, "node", "metric", query, generic)
  BY <1>2, LegacyPlaced DEF LegacyNodeStages
<1>4. \A generic \in {"limits", "requests"} : \A query \in LegacyOf[generic] :
       \E i \in LegacyTotalStages : LegacyAt(i, "cluster", "total", query, generic)
  BY <1>2, LegacyPlaced DEF LegacyTotalStages
<1> QED BY <1>1, <1>3, <1>4

-----------------------------------------------------------------------------
(* The turns of the stages *)

Pausing == {"calls", "log", "resetWriters"}

\* A stage that is entered is one that asks or writes, and serves clusters.
Control ==
  /\ position \in 1 .. 66
  /\ started \in BOOLEAN
  /\ pending \subseteq Cluster
  /\ started => position # 66 /\ Stages[position].handler \notin Pausing
  /\ ~started => pending = {}

\* The stage has been left, or has served the cluster.
Passed(i, c) == position > i \/ (position = i /\ started /\ c \notin pending)

LEMMA NextPartLater ==
  ASSUME position \in 1 .. 65
  PROVE  NextPart \in position + 1 .. 66
<1> DEFINE later == {i \in position .. Len(Stages) : Stages[i].part # Current.part}
<1>1. Len(Stages) = 65
  BY StagesSuit
<1>2. CASE later = {}
  <2>1. NextPart = 66
    BY <1>1, <1>2 DEF NextPart
  <2> QED BY <2>1
<1>3. CASE later # {}
  <2>1. later \in SUBSET Nat
    BY <1>1
  <2>2. \E i \in later : \A j \in later : i <= j
    <3> HIDE DEF later
    <3> QED BY <1>3, <2>1, LeastElement
  <2>3. NextPart \in later
    BY <1>3, <2>2 DEF NextPart
  <2>4. NextPart \in position .. 65 /\ Stages[NextPart].part # Stages[position].part
    BY <1>1, <2>3 DEF Current
  <2> HIDE DEF later
  <2>5. NextPart # position
    BY <2>4
  <2> QED BY <2>4, <2>5
<1> QED BY <1>2, <1>3

\* What a step does to the stages passed: none before the quotas is left out.
StepTaken ==
  /\ Control'
  /\ position' >= position
  /\ position <= 52 => position' \in {position, position + 1}
  /\ position' = position \/ ~started'
  /\ \A i \in 1 .. 52 : \A c \in Cluster : Passed(i, c) => Passed(i, c)'
  /\ \A i \in 1 .. 52 : \A c \in Cluster : Passed(i, c)' /\ ~Passed(i, c) =>
       /\ i = position
       /\ \/ Serve(c)
          \/ Stages[i].handler \in Pausing \cup {"files"}
          \/ Ask /\ ~Wanted(Stages[i].given)

LEMMA StepsTaken ==
  ASSUME Control, [Next]_vars
  PROVE  StepTaken
<1>1. Len(Stages) = 65
  BY StagesSuit
<1>2. ASSUME UNCHANGED vars PROVE StepTaken
  <2>1. Control' /\ \A i \in 1 .. 52 : \A c \in Cluster : Passed(i, c)' <=> Passed(i, c)
    BY <1>2 DEF Control, Passed, vars
  <2>2. position' = position /\ position \in Int
    BY <1>2 DEF Control, vars
  <2> QED BY <2>1, <2>2 DEF StepTaken
<1>3. ASSUME Ask PROVE StepTaken
  <2>1. /\ position \in 1 .. 65 /\ ~started /\ pending = {} /\ started' = TRUE /\ position' = position
        /\ Stages[position].handler \notin Pausing
    BY <1>1, <1>3 DEF Ask, Control, Done, Current, Pausing
  <2>2. pending' \subseteq Cluster
    BY <1>3 DEF Ask, ClustersToWrite
  <2>3. Control'
    BY <2>1, <2>2 DEF Control
  <2>4. ASSUME NEW i \in 1 .. 52, NEW c \in Cluster, Passed(i, c)
        PROVE  Passed(i, c)'
    BY <2>1, <2>4 DEF Passed
  <2>5. ASSUME NEW i \in 1 .. 52, NEW c \in Cluster, Passed(i, c)', ~Passed(i, c)
        PROVE  /\ i = position
               /\ Stages[i].handler \in Pausing \cup {"files"} \/ ~Wanted(Stages[i].given)
    <3>1. i = position /\ c \notin pending'
      BY <2>1, <2>5 DEF Passed
    <3>2. CASE Wanted(Current.given) /\ Current.handler # "files"
      BY <1>3, <3>1, <3>2 DEF Ask
    <3> QED BY <3>1, <3>2 DEF Current
  <2>6. position' >= position
    BY <2>1
  <2> QED BY <1>3, <2>1, <2>3, <2>4, <2>5, <2>6 DEF StepTaken
<1>4. ASSUME LogVersions \/ ResetWriters \/ Call PROVE StepTaken
  <2>1. /\ position \in 1 .. 65 /\ Stages[position].handler \in Pausing /\ position' = position + 1
        /\ UNCHANGED <<pending, started>>
    BY <1>1, <1>4 DEF LogVersions, ResetWriters, Call, Control, Done, Current, Pausing
  <2>2. ~started
    BY <2>1 DEF Control
  <2>3. Control'
    <3>1. position' \in 1 .. 66
      BY <2>1
    <3> QED BY <2>1, <2>2, <3>1 DEF Control
  <2>4. ASSUME NEW i \in 1 .. 52, NEW c \in Cluster
        PROVE  Passed(i, c)' <=> Passed(i, c) \/ i = position
    BY <2>1, <2>2 DEF Passed
  <2>5. position' >= position /\ position' = position + 1
    BY <2>1
  <2> QED BY <2>1, <2>2, <2>3, <2>4, <2>5 DEF StepTaken
<1>5. ASSUME Leave PROVE StepTaken
  <2>1. /\ position \in 1 .. 65 /\ started /\ pending = {} /\ pending' = {} /\ started' = FALSE
    BY <1>5 DEF Leave, Control
  <2>2. position' \in position + 1 .. 66 /\ (position <= 52 => position' = position + 1)
    <3>1. CASE Current.given[1] = "needed" /\ Answering(Current.query) = 0
      <4>1. position' = NextPart
        BY <1>5, <3>1 DEF Leave
      <4>2. position \in {53, 61}
        BY <2>1, <3>1, StagesSuit DEF Suits, Current
      <4>3. position' \in position + 1 .. 66
        BY <2>1, <4>1, NextPartLater
      <4>4. ~(position <= 52)
        BY <4>2
      <4> QED BY <4>3, <4>4
    <3>2. CASE ~(Current.given[1] = "needed" /\ Answering(Current.query) = 0)
      <4>1. position' = position + 1
        BY <1>5, <3>2 DEF Leave
      <4> QED BY <2>1, <4>1
    <3> QED BY <3>1, <3>2
  <2>3. Control'
    <3>1. position' \in 1 .. 66
      BY <2>1, <2>2
    <3> QED BY <2>1, <3>1 DEF Control
  <2>4. ASSUME NEW i \in 1 .. 52, NEW c \in Cluster
        PROVE  Passed(i, c)' <=> Passed(i, c)
    BY <2>1, <2>2 DEF Passed
  <2>5. position' >= position /\ (position <= 52 => position' \in {position, position + 1})
    BY <2>1, <2>2
  <2> QED BY <2>1, <2>3, <2>4, <2>5 DEF StepTaken
<1>6. ASSUME NEW d \in Cluster, Serve(d) \/ Write(d) PROVE StepTaken
  <2>1. /\ position \in 1 .. 65 /\ started /\ UNCHANGED <<position, started>> /\ pending' = pending \ {d}
    <3>1. started /\ UNCHANGED <<position, started>> /\ pending' = pending \ {d}
      <4>1. ASSUME Serve(d) PROVE started /\ UNCHANGED <<position, started>> /\ pending' = pending \ {d}
        BY ZenonT(30), <4>1 DEF Serve
      <4>2. ASSUME Write(d) PROVE started /\ UNCHANGED <<position, started>> /\ pending' = pending \ {d}
        BY ZenonT(30), <4>2 DEF Write
      <4> QED BY <1>6, <4>1, <4>2
    <3> QED BY <3>1 DEF Control
  <2>2. Control'
    BY <2>1 DEF Control
  <2>3. ASSUME NEW i \in 1 .. 52, NEW c \in Cluster
        PROVE  Passed(i, c)' <=> Passed(i, c) \/ (i = position /\ c = d)
    BY <2>1 DEF Passed
  <2>4. Serve(d) \/ Stages[position].handler = "files"
    BY <1>6 DEF Write, Current
  <2>5. position' >= position /\ position' = position
    BY <2>1
  <2> QED BY <2>2, <2>3, <2>4, <2>5 DEF StepTaken
<1> QED BY <1>2, <1>3, <1>4, <1>5, <1>6 DEF Next

-----------------------------------------------------------------------------
(* What becomes known of the clusters *)

LEMMA AnswersGiven ==
  ASSUME answers \in Answers, NEW c \in Cluster
  PROVE  /\ \A q : IsSequence(AnswerTo(c, q))
         /\ Versioned(AllSeries(c, "buildInfo"))
<1>1. ASSUME NEW q PROVE IsSequence(AnswerTo(c, q))
  <2>1. CASE q \in DOMAIN answers[c]
    <3> DEFINE a == answers[c][q]
    <3>1. a \in Seq({a[i] : i \in DOMAIN a})
      BY <2>1, AnswersAssumption
    <3>2. AnswerTo(c, q) = a
      BY <2>1 DEF AnswerTo
    <3> DEFINE S == {a[i] : i \in DOMAIN a}
    <3> HIDE DEF a, S
    <3>3. a \in Seq(S)
      BY <3>1 DEF S
    <3>4. Len(a) \in Nat /\ a = [i \in 1 .. Len(a) |-> a[i]]
      BY ONLY <3>3
    <3> QED BY <3>2, <3>4 DEF IsSequence
  <2>2. CASE q \notin DOMAIN answers[c]
    <3>1. AnswerTo(c, q) = <<>>
      BY <2>2 DEF AnswerTo
    <3>2. IsSequence(<<>>)
      BY DEF IsSequence
    <3> QED BY <3>1, <3>2
  <2> QED BY <2>1, <2>2
<1>2. CASE "buildInfo" \in DOMAIN answers[c]
  <2> DEFINE a == answers[c]["buildInfo"]
             S == {a[i] : i \in DOMAIN a}
  <2>1. AnswerTo(c, "buildInfo") = a
    BY <1>2 DEF AnswerTo
  <2>2. IsSequence(a)
    BY <1>1, <2>1
  <2>3. DOMAIN a = 1 .. Len(a)
    <3> HIDE DEF a
    <3> QED BY <2>2 DEF IsSequence
  <2>4. AllSeries(c, "buildInfo") = S
    BY <2>1, <2>3 DEF AllSeries
  <2>5. \A s \in {s \in S : VersionLabels \subseteq DOMAIN s} :
          /\ VersionOf(s) # None /\ s.major \in Int /\ s.minor \in Int
          /\ \A t \in {s_1 \in S : VersionLabels \subseteq DOMAIN s_1} :
               s.git_version = t.git_version => VersionOf(s) = VersionOf(t)
    BY <1>2, VersionsAssumption
  <2> HIDE DEF S
  <2>6. Versioned(S)
    BY <2>5 DEF Versioned
  <2> QED BY <1>1, <2>4, <2>6
<1>3. CASE "buildInfo" \notin DOMAIN answers[c]
  <2>1. AllSeries(c, "buildInfo") = {}
    <3>1. AnswerTo(c, "buildInfo") = <<>>
      BY <1>3 DEF AnswerTo
    <3>2. 1 .. Len(AnswerTo(c, "buildInfo")) = {}
      BY <3>1
    <3> QED BY <3>2 DEF AllSeries
  <2> QED BY <1>1, <2>1 DEF Versioned
<1> QED BY <1>1, <1>2, <1>3

\* What is known of a cluster after a stage has served it.
Served(i, cl, answer) ==
  IF Stages[i].handler = "exporter" THEN DetermineExporter(Stages[i].arg, cl, answer)
  ELSE HandleAll(Stages[i], cl, answer)

LEMMA ServeGives ==
  ASSUME Control, DOMAIN data = Cluster, NEW c \in Cluster, Serve(c)
  PROVE  /\ position \in 1 .. 65 /\ started /\ c \in pending
         /\ Stages[position].handler \notin Pausing \cup {"files"}
         /\ DOMAIN data' = Cluster
         /\ data'[c] = Served(position, data[c], AnswerTo(c, QueryAt(position)))
         /\ \A d \in Cluster \ {c} : data'[d] = data[d]
         /\ indicators' = IF MetricAt(position) \in DOMAIN indicators /\ AnswerTo(c, QueryAt(position)) # <<>>
                          THEN [indicators EXCEPT ![MetricAt(position)] = indicators[MetricAt(position)] + 1]
                          ELSE indicators
         /\ pending' = pending \ {c}
         /\ UNCHANGED <<answers, position, started, calls, files, interrupted>>
<1>1. Query = QueryAt(position)
  BY DEF Query, QueryAt, QueryOf, Current
<1> DEFINE answer == AnswerTo(c, QueryAt(position))
           cl == Served(position, data[c], answer)
<1>2. /\ started /\ c \in pending /\ Current.handler # "files"
      /\ pending' = pending \ {c}
      /\ UNCHANGED <<answers, position, started, calls, files, interrupted>>
  BY DEF Serve
<1>3. data' = [data EXCEPT ![c] = cl]
  BY <1>1 DEF Serve, Served, Current
<1>4. indicators' = IF MetricAt(position) \in DOMAIN indicators /\ answer # <<>>
                    THEN [indicators EXCEPT ![MetricAt(position)] = indicators[MetricAt(position)] + 1]
                    ELSE indicators
  BY <1>1 DEF Serve, MetricAt, Current
<1> HIDE DEF cl, answer
<1>5. DOMAIN data' = Cluster /\ data'[c] = cl /\ \A d \in Cluster \ {c} : data'[d] = data[d]
  BY <1>3
<1>6. position \in 1 .. 65 /\ Stages[position].handler \notin Pausing \cup {"files"}
  BY <1>2 DEF Control, Current
<1> QED BY <1>2, <1>4, <1>5, <1>6 DEF cl, answer

LEMMA ServedKeeps ==
  ASSUME NEW i \in 4 .. 65, Stages[i].handler \notin Pausing \cup {"files"},
         NEW cl, NEW answer, IsSequence(answer), ClusterOK(cl)
  PROVE  ClusterOK(Served(i, cl, answer)) /\ Grown(cl, Served(i, cl, answer))
<1>1. Stages[i].handler \in StoringHandlers
  BY StagesSuit DEF Suits
<1>2. CASE Stages[i].handler = "exporter"
  BY <1>2, ExporterGrows DEF Served
<1>3. CASE Stages[i].handler # "exporter"
  <2>1. Stages[i].handler \in KeepingHandlers
    BY <1>1, <1>3 DEF StoringHandlers, Pausing
  <2> QED BY <1>3, <2>1, AnswerKept DEF Served
<1> QED BY <1>2, <1>3

\* What is known is well formed.
DataWellFormed ==
  /\ answers \in Answers
  /\ DOMAIN data = Cluster
  /\ \A c \in Cluster : ClusterOK(data[c])

\* The versions are those told until they are sorted, whereafter they stay so.
VersionsKnown ==
  /\ position = 1 => \A c \in Cluster :
       IF Passed(1, c) THEN Listed(data[c].versions, AllSeries(c, "buildInfo")) ELSE Listed(data[c].versions, {})
  /\ position = 2 => \A c \in Cluster : Listed(data[c].versions, AllSeries(c, "buildInfo"))
  /\ position > 2 => \A c \in Cluster : ExtremesOf(data[c].versions, AllSeries(c, "buildInfo"))

\* Writers closed.
LEMMA ResetKeeps ==
  ASSUME NEW cl, ClusterOK(cl)
  PROVE  LET d == [cl EXCEPT !.open = {}] IN ClusterOK(d) /\ Grown(cl, d)
<1> DEFINE d == [cl EXCEPT !.open = {}]
<1>1. /\ DOMAIN d = DOMAIN cl /\ d.nodes = cl.nodes /\ d.versions = cl.versions
      /\ d.exporters = cl.exporters /\ d.totals = cl.totals /\ d.open = {}
      /\ d.rows = cl.rows /\ d.crqs = cl.crqs
  BY DEF ClusterOK
<1> HIDE DEF d
<1>2. ClusterOK(d) /\ Grown(cl, d)
  BY <1>1 DEF ClusterOK, Grown
<1> QED BY <1>2 DEF d

\* Versions sorted.
LEMMA LogKeeps ==
  ASSUME NEW cl, ClusterOK(cl), NEW S, Listed(cl.versions, S), Versioned(S)
  PROVE  LET d == [cl EXCEPT !.versions = [apiServers |-> Sorted(@.apiServers), nodes |-> Sorted(@.nodes)]]
         IN ClusterOK(d) /\ ExtremesOf(d.versions, S)
<1> DEFINE v == [apiServers |-> Sorted(cl.versions.apiServers), nodes |-> Sorted(cl.versions.nodes)]
           d == [cl EXCEPT !.versions = v]
<1>1. Extreme(v.apiServers, Counted(ApiServerJobs, S)) /\ Extreme(v.nodes, Counted(NodeJobs, S))
  BY ListSorted DEF Listed
<1> HIDE DEF v
<1>2. /\ DOMAIN d = DOMAIN cl /\ d.nodes = cl.nodes /\ d.versions = v
      /\ d.exporters = cl.exporters /\ d.totals = cl.totals /\ d.open = cl.open
      /\ d.rows = cl.rows /\ d.crqs = cl.crqs
  BY DEF ClusterOK
<1> HIDE DEF d
<1>3. ClusterOK(d) /\ ExtremesOf(d.versions, S)
  BY <1>1, <1>2 DEF ClusterOK, ExtremesOf
<1> QED BY <1>3 DEF d, v

LEMMA EarlyStages ==
  /\ Stages[1].handler = "version" /\ Stages[2].handler = "log" /\ Stages[3].handler = "create"
  /\ QueryAt(1) = "buildInfo" /\ Stages[1].given[1] = "always"
  /\ \A i \in 1 .. 65 : /\ Stages[i].handler = "log" => i = 2
                        /\ Stages[i].handler \in {"resetWriters", "calls", "files"} => i > 3
<1>1. /\ Stages[1].handler = "version" /\ Stages[2].handler = "log" /\ Stages[3].handler = "create"
      /\ Stages[1].part = "version" /\ Stages[1].query = "buildInfo" /\ Stages[1].given[1] = "always"
  <2> DEFINE AskedAt(i, part, query, handler) ==
               /\ Stages[i].part = part /\ Stages[i].query = query
               /\ Stages[i].handler = handler /\ Stages[i].given[1] = "always"
  <2>1. ASSUME NEW i, NEW part, NEW query, NEW handler, NEW arg, Stages[i] = Asked(part, query, handler, arg)
        PROVE  AskedAt(i, part, query, handler)
    BY <2>1 DEF Asked, Stage
  <2> HIDE DEF AskedAt
  <2>2. /\ AskedAt(1, "version", "buildInfo", "version") /\ AskedAt(2, "version", "", "log")
        /\ AskedAt(3, "node", "nodeInfo", "create")
    BY <2>1, Placed
  <2> QED BY <2>2 DEF AskedAt
<1>2. ASSUME NEW i \in 1 .. 65
      PROVE  /\ Stages[i].handler = "log" => i = 2
             /\ Stages[i].handler \in {"resetWriters", "calls", "files"} => i > 3
  <2>1. i \in {1, 2, 3} \/ (i > 3 /\ Stages[i].handler \in StoringHandlers)
    BY StagesSuit DEF Suits
  <2>2. "log" \notin StoringHandlers
    BY DEF StoringHandlers, KeepingHandlers
  <2> QED BY <1>1, <2>1, <2>2
<1> QED BY <1>1, <1>2 DEF QueryAt, QueryOf

LEMMA DataSteps ==
  ASSUME Control, DataWellFormed, VersionsKnown, [Next]_vars
  PROVE  /\ DataWellFormed' /\ VersionsKnown' /\ answers' = answers
         /\ position > 3 => \A c \in Cluster : Grown(data[c], data'[c])
<1> DEFINE Goal == /\ DataWellFormed' /\ VersionsKnown' /\ answers' = answers
                   /\ position > 3 => \A c \in Cluster : Grown(data[c], data'[c])
           All(c) == AllSeries(c, "buildInfo")
<1>a. ASSUME NEW cl PROVE Grown(cl, cl)
  BY DEF Grown
<1>b. ASSUME answers' = answers, NEW c PROVE All(c)' = All(c)
  BY <1>b DEF AllSeries, AnswerTo
<1>c. position \in 1 .. 66
  BY DEF Control
\* What is known stays, and versions, whether told or not.
<1>d. ASSUME UNCHANGED <<answers, data>>, position' = position,
             \A c \in Cluster : Passed(1, c)' <=> Passed(1, c)
      PROVE  Goal
  <2>1. DataWellFormed'
    BY <1>d DEF DataWellFormed
  <2>2. VersionsKnown'
    BY <1>b, <1>d DEF VersionsKnown
  <2> QED BY <1>a, <1>d, <2>1, <2>2
\* The same of steps after the versions are known.
<1>e. ASSUME answers' = answers, DOMAIN data' = Cluster, position > 3, position' >= position, position' \in Int,
             \A c \in Cluster : ClusterOK(data'[c]) /\ Grown(data[c], data'[c])
      PROVE  Goal
  <2>1. DataWellFormed'
    BY <1>e DEF DataWellFormed
  <2>2. ASSUME NEW c \in Cluster PROVE ExtremesOf(data'[c].versions, All(c)')
    <3>1. ExtremesOf(data[c].versions, All(c))
      BY <1>c, <1>e DEF VersionsKnown
    <3>2. data'[c].versions = data[c].versions
      BY <1>e DEF Grown
    <3> QED BY <1>b, <1>e, <3>1, <3>2
  <2>3. VersionsKnown'
    <3>1. position' > 3 /\ position' # 1 /\ position' # 2
      BY <1>c, <1>e
    <3> HIDE DEF All
    <3> QED BY <2>2, <3>1 DEF VersionsKnown, All
  <2> QED BY <1>e, <2>1, <2>3
<1>1. CASE UNCHANGED vars
  <2>1. UNCHANGED <<answers, data>> /\ position' = position /\ \A c \in Cluster : Passed(1, c)' <=> Passed(1, c)
    BY <1>1 DEF vars, Passed
  <2> QED BY <1>d, <2>1
<1>2. CASE Ask
  <2>1. UNCHANGED <<answers, data>> /\ position' = position /\ ~started
    BY <1>2 DEF Ask
  <2>2. ASSUME NEW c \in Cluster PROVE Passed(1, c)' <=> Passed(1, c)
    <3>1. CASE position = 1
      <4>1. Wanted(Current.given) /\ Current.handler # "files"
        BY <3>1, EarlyStages DEF Wanted, Current
      <4>2. pending' = Cluster
        BY <1>2, <4>1 DEF Ask
      <4> QED BY <2>1, <3>1, <4>2 DEF Passed
    <3>2. CASE position # 1
      BY <2>1, <3>2 DEF Passed
    <3> QED BY <3>1, <3>2
  <2> QED BY <1>d, <2>1, <2>2
<1>3. CASE LogVersions
  <2>1. position = 2 /\ position' = 3 /\ answers' = answers
    <3>1. position \in 1 .. 65 /\ Stages[position].handler = "log" /\ position' = position + 1 /\ answers' = answers
      BY <1>3, <1>c, StagesSuit DEF LogVersions, Current, Done
    <3>2. position = 2
      BY ONLY <3>1, EarlyStages
    <3> QED BY <3>1, <3>2
  <2> DEFINE Logged(cl) == [cl EXCEPT !.versions =
                              [apiServers |-> Sorted(@.apiServers), nodes |-> Sorted(@.nodes)]]
  <2>2. data' = [c \in Cluster |-> Logged(data[c])]
    BY <1>3 DEF LogVersions
  <2>3. ASSUME NEW c \in Cluster PROVE ClusterOK(Logged(data[c])) /\ ExtremesOf(Logged(data[c]).versions, All(c))
    <3>1. ClusterOK(data[c]) /\ Listed(data[c].versions, All(c)) /\ Versioned(All(c))
      BY <2>1, AnswersGiven DEF VersionsKnown, DataWellFormed
    <3> HIDE DEF All
    <3> QED BY <3>1, LogKeeps
  <2> HIDE DEF Logged
  <2>4. DOMAIN data' = Cluster /\ \A c \in Cluster : ClusterOK(data'[c]) /\ ExtremesOf(data'[c].versions, All(c)')
    <3> HIDE DEF All
    <3> QED BY <1>b, <2>1, <2>2, <2>3
  <2>5. DataWellFormed'
    BY <2>1, <2>4 DEF DataWellFormed
  <2>6. VersionsKnown'
    BY <2>1, <2>4 DEF VersionsKnown
  <2> QED BY <2>1, <2>5, <2>6
<1>4. CASE ResetWriters
  <2>1. position > 3 /\ position' >= position /\ position' \in Int /\ answers' = answers
    <3>1. /\ position \in 1 .. 65 /\ Stages[position].handler = "resetWriters" /\ position' = position + 1
          /\ answers' = answers
      BY <1>4, <1>c, StagesSuit DEF ResetWriters, Current, Done
    <3> QED BY <3>1, EarlyStages
  <2> DEFINE Closed(cl) == [cl EXCEPT !.open = {}]
  <2>2. data' = [c \in Cluster |-> Closed(data[c])]
    BY <1>4 DEF ResetWriters
  <2>3. ASSUME NEW c \in Cluster PROVE ClusterOK(Closed(data[c])) /\ Grown(data[c], Closed(data[c]))
    BY ResetKeeps DEF DataWellFormed
  <2> HIDE DEF Closed
  <2>4. DOMAIN data' = Cluster /\ \A c \in Cluster : ClusterOK(data'[c]) /\ Grown(data[c], data'[c])
    BY <2>2, <2>3
  <2> QED BY <1>e, <2>1, <2>4
<1>5. CASE Call
  <2>1. position > 3 /\ position' >= position /\ position' \in Int /\ UNCHANGED <<answers, data>>
    <3>1. /\ position \in 1 .. 65 /\ Stages[position].handler = "calls" /\ position' = position + 1
          /\ UNCHANGED <<answers, data>>
      BY <1>5, <1>c, StagesSuit DEF Call, Current, Done
    <3> QED BY <3>1, EarlyStages
  <2> QED BY <1>a, <1>e, <2>1 DEF DataWellFormed
<1>6. CASE Leave
  <2>1. started /\ pending = {} /\ UNCHANGED <<answers, data>> /\ position' # position
    <3>1. started /\ pending = {} /\ UNCHANGED <<answers, data>>
      BY <1>6 DEF Leave
    <3>2. position' = NextPart \/ position' = position + 1
      BY <1>6 DEF Leave
    <3>3. position \in 1 .. 65
      BY <3>1 DEF Control
    <3> QED BY <3>1, <3>2, <3>3, NextPartLater
  <2>2. position' >= position /\ (position <= 52 => position' \in {position, position + 1}) /\ position' \in Int
    BY StepsTaken DEF StepTaken, Control
  <2>3. CASE position > 3
    BY <1>a, <1>e, <2>1, <2>2, <2>3 DEF DataWellFormed
  <2>4. CASE position \in {1, 2, 3}
    <3>1. position' = position + 1 /\ position # 2
      BY <2>1, <2>2, <2>4, EarlyStages DEF Control, Pausing
    <3>2. DataWellFormed'
      BY <2>1 DEF DataWellFormed
    <3>3. ASSUME position = 1 PROVE VersionsKnown'
      <4>1. \A c \in Cluster : Listed(data[c].versions, All(c))
        BY <2>1, <3>3 DEF VersionsKnown, Passed
      <4>2. position' = 2
        BY <3>1, <3>3
      <4> HIDE DEF All
      <4>3. \A c \in Cluster : Listed(data'[c].versions, All(c)')
        BY <1>b, <2>1, <4>1
      <4> QED BY <4>2, <4>3 DEF VersionsKnown, All
    <3>4. ASSUME position = 3 PROVE VersionsKnown'
      <4>1. \A c \in Cluster : ExtremesOf(data[c].versions, All(c))
        BY <3>4 DEF VersionsKnown
      <4>2. position' = 4
        BY <3>1, <3>4
      <4> HIDE DEF All
      <4>3. \A c \in Cluster : ExtremesOf(data'[c].versions, All(c)')
        BY <1>b, <2>1, <4>1
      <4> QED BY <4>2, <4>3 DEF VersionsKnown, All
    <3> QED BY <2>1, <2>4, <3>1, <3>2, <3>3, <3>4
  <2> QED BY <1>c, <2>3, <2>4
<1>7. ASSUME NEW d \in Cluster, Write(d) PROVE Goal
  <2>1. Stages[position].handler = "files" /\ started /\ position' = position /\ UNCHANGED <<answers, data>>
    BY <1>7 DEF Write, Current
  <2>2. position > 3 /\ position' >= position /\ position' \in Int
    <3>1. position \in 1 .. 65
      BY <2>1 DEF Control
    <3> QED BY <2>1, <3>1, EarlyStages
  <2> QED BY <1>a, <1>e, <2>1, <2>2 DEF DataWellFormed
<1>8. ASSUME NEW d \in Cluster, Serve(d) PROVE Goal
  <2> DEFINE answer == AnswerTo(d, QueryAt(position))
             cl == Served(position, data[d], answer)
  <2>1. /\ position \in 1 .. 65 /\ started /\ d \in pending
        /\ Stages[position].handler \notin Pausing \cup {"files"}
        /\ DOMAIN data' = Cluster
        /\ data'[d] = cl
        /\ \A c \in Cluster \ {d} : data'[c] = data[c]
        /\ pending' = pending \ {d}
        /\ UNCHANGED <<answers, position, started>>
    BY <1>8, ServeGives DEF DataWellFormed
  <2>2. ClusterOK(data[d]) /\ IsSequence(answer)
    BY AnswersGiven DEF DataWellFormed
  <2> HIDE DEF answer
  <2>3. CASE position > 3
    <3>1. position \in 4 .. 65
      BY <2>1, <2>3
    <3>2. ClusterOK(cl) /\ Grown(data[d], cl)
      BY <2>1, <2>2, <3>1, ServedKeeps
    <3> HIDE DEF cl
    <3>3. \A c \in Cluster : ClusterOK(data'[c]) /\ Grown(data[c], data'[c])
      BY <1>a, <2>1, <3>2 DEF DataWellFormed
    <3>4. position' >= position /\ position' \in Int
      BY <2>1
    <3> QED BY <1>e, <2>1, <2>3, <3>3, <3>4
  <2>4. CASE position = 3
    <3>1. cl = HandleAll(Stages[3], data[d], answer) /\ Stages[3].handler = "create"
      BY <2>4, EarlyStages DEF Served
    <3>2. ClusterOK(cl) /\ cl.versions = data[d].versions
      BY <2>2, <3>1, CreateAnswer
    <3> HIDE DEF cl
    <3>3. \A c \in Cluster : ClusterOK(data'[c]) /\ data'[c].versions = data[c].versions
      BY <2>1, <3>2 DEF DataWellFormed
    <3>4. DataWellFormed'
      BY <2>1, <3>3 DEF DataWellFormed
    <3>5. \A c \in Cluster : ExtremesOf(data[c].versions, All(c))
      BY <2>4 DEF VersionsKnown
    <3>6. VersionsKnown'
      <4> HIDE DEF All
      <4>1. \A c \in Cluster : ExtremesOf(data'[c].versions, All(c)')
        BY <1>b, <2>1, <3>3, <3>5
      <4>2. position' = 3
        BY <2>1, <2>4
      <4> QED BY <4>1, <4>2 DEF VersionsKnown, All
    <3> QED BY <2>1, <2>4, <3>4, <3>6
  <2>5. CASE position = 1
    <3>1. /\ cl = HandleAll(Stages[1], data[d], answer) /\ Stages[1].handler = "version"
          /\ {answer[i] : i \in 1 .. Len(answer)} = All(d)
      BY <2>5, EarlyStages DEF Served, AllSeries, answer
    <3>2. Listed(data[d].versions, {}) /\ Versioned(All(d))
      BY <2>1, <2>5, AnswersGiven DEF VersionsKnown, Passed, DataWellFormed
    <3>3. ClusterOK(cl) /\ Listed(cl.versions, All(d))
      <4> HIDE DEF All
      <4> QED BY <2>2, <3>1, <3>2, VersionAnswer
    <3> HIDE DEF cl
    <3>4. DataWellFormed'
      BY <2>1, <3>3 DEF DataWellFormed
    <3>5. ASSUME NEW c \in Cluster
          PROVE  IF Passed(1, c)' THEN Listed(data'[c].versions, All(c)') ELSE Listed(data'[c].versions, {})
      <4>1. CASE c = d
        <5>1. Passed(1, c)'
          BY <2>1, <2>5, <4>1 DEF Passed
        <5> HIDE DEF All
        <5> QED BY <1>b, <2>1, <3>3, <4>1, <5>1
      <4>2. CASE c # d
        <5>1. Passed(1, c)' <=> Passed(1, c)
          BY <2>1, <4>2 DEF Passed
        <5>2. IF Passed(1, c) THEN Listed(data[c].versions, All(c)) ELSE Listed(data[c].versions, {})
          BY <2>5 DEF VersionsKnown
        <5> HIDE DEF All
        <5> QED BY <1>b, <2>1, <4>2, <5>1, <5>2
      <4> QED BY <4>1, <4>2
    <3>6. position' = 1
      BY <2>1, <2>5
    <3>7. VersionsKnown'
      <4> HIDE DEF All
      <4> QED BY <3>5, <3>6 DEF VersionsKnown, All
    <3> QED BY <2>1, <2>5, <3>4, <3>7
  <2>6. position # 2
    BY <2>1, EarlyStages DEF Pausing
  <2> QED BY <2>1, <2>3, <2>4, <2>5, <2>6
<1> QED BY <1>1, <1>2, <1>3, <1>4, <1>5, <1>6, <1>7, <1>8 DEF Next


-----------------------------------------------------------------------------
(* Counts, and what is recorded instead *)

\* The invariant so far.
StateOK == Control /\ DataWellFormed /\ VersionsKnown

\* The clusters that have answered the query of a counting stage.
Answered(i) == {c \in Cluster : Passed(i, c) /\ AnswerTo(c, QueryAt(i)) # <<>>}

CountsKept ==
  /\ DOMAIN indicators = Metrics
  /\ \A i \in CountingStages : indicators[MetricAt(i)] = Cardinality(Answered(i))
  /\ \A m \in Metrics : (\A i \in CountingStages : m # MetricAt(i)) => indicators[m] = 0

LEMMA AnsweredFinite ==
  ASSUME NEW i
  PROVE  IsFiniteSet(Answered(i)) /\ Cardinality(Answered(i)) \in 0 .. Cardinality(Cluster)
<1>1. IsFiniteSet(Cluster) /\ Answered(i) \subseteq Cluster
  BY InventoryAssumption DEF Answered
<1>2. IsFiniteSet(Answered(i)) /\ Cardinality(Answered(i)) <= Cardinality(Cluster)
  BY <1>1, FS_Subset
<1>3. Cardinality(Cluster) \in Nat /\ Cardinality(Answered(i)) \in Nat
  BY <1>1, <1>2, FS_CardinalityType
<1> QED BY <1>2, <1>3

LEMMA CountsServed ==
  ASSUME StateOK, CountsKept, NEW c \in Cluster, Serve(c)
  PROVE  CountsKept'
<1> DEFINE answer == AnswerTo(c, QueryAt(position))
           m == MetricAt(position)
<1>1. /\ position \in 1 .. 65 /\ started /\ c \in pending /\ pending' = pending \ {c}
      /\ UNCHANGED <<answers, position, started>>
      /\ indicators' = IF m \in Metrics /\ answer # <<>> THEN [indicators EXCEPT ![m] = indicators[m] + 1]
                       ELSE indicators
  BY ServeGives DEF StateOK, DataWellFormed, CountsKept
<1>2. ASSUME NEW i, NEW d \in Cluster
      PROVE  (Passed(i, d)' <=> Passed(i, d) \/ (i = position /\ d = c)) /\ ~(Passed(position, c))
  BY <1>1 DEF Passed
<1>3. ASSUME NEW d, NEW q PROVE AnswerTo(d, q)' = AnswerTo(d, q)
  BY <1>1 DEF AnswerTo
<1>4. ASSUME NEW i
      PROVE  Answered(i)' = IF i = position /\ answer # <<>> THEN Answered(i) \cup {c} ELSE Answered(i)
  <2>1. Answered(i)' = {d \in Cluster : Passed(i, d)' /\ AnswerTo(d, QueryAt(i)) # <<>>}
    BY <1>3 DEF Answered
  <2>2. \A d \in Cluster : d \in Answered(i)'
          <=> d \in Answered(i) \/ (i = position /\ d = c /\ answer # <<>>)
    BY <1>2, <2>1 DEF Answered
  <2>3. Answered(i)' \subseteq Cluster /\ Answered(i) \subseteq Cluster
    BY <2>1 DEF Answered
  <2> HIDE DEF answer
  <2> QED BY <2>2, <2>3
<1>5. c \notin Answered(position)
  BY <1>2 DEF Answered
<1>6. m \in Metrics => position \in CountingStages
  BY <1>1, CountingOnce
<1> HIDE DEF m, answer
<1>7. DOMAIN indicators' = Metrics /\ \A n \in Metrics : n # m => indicators'[n] = indicators[n]
  BY <1>1 DEF CountsKept
<1>8. ASSUME NEW i \in CountingStages PROVE indicators'[MetricAt(i)] = Cardinality(Answered(i)')
  <2>1. MetricAt(i) \in Metrics
    BY CountingOnce
  <2>2. CASE i = position /\ answer # <<>>
    <3>1. MetricAt(i) = m
      BY <2>2 DEF m
    <3>2. indicators'[m] = indicators[m] + 1
      BY <1>1, <2>1, <2>2, <3>1 DEF CountsKept
    <3>3. Cardinality(Answered(i) \cup {c}) = Cardinality(Answered(i)) + 1
      BY <1>5, <2>2, AnsweredFinite, FS_AddElement
    <3>4. indicators[m] = Cardinality(Answered(i))
      BY <3>1 DEF CountsKept
    <3> QED BY <1>4, <2>2, <3>1, <3>2, <3>3, <3>4
  <2>3. CASE ~(i = position /\ answer # <<>>)
    <3>1. Answered(i)' = Answered(i)
      BY <1>4, <2>3
    <3>2. indicators'[MetricAt(i)] = indicators[MetricAt(i)]
      <4>1. CASE i = position
        BY <1>1, <2>3, <4>1
      <4>2. CASE i # position
        <5>1. m # MetricAt(i)
          BY <1>6, <2>1, <4>2, CountingOnce DEF m
        <5> QED BY <1>7, <2>1, <5>1
      <4> QED BY <4>1, <4>2
    <3> QED BY <3>1, <3>2 DEF CountsKept
  <2> QED BY <2>2, <2>3
<1>9. ASSUME NEW n \in Metrics, \A i \in CountingStages : n # MetricAt(i) PROVE indicators'[n] = 0
  <2>1. n # m
    BY <1>6, <1>9 DEF m
  <2> QED BY <1>7, <1>9, <2>1 DEF CountsKept
<1> QED BY <1>7, <1>8, <1>9 DEF CountsKept

LEMMA CountsSteps ==
  ASSUME StateOK, CountsKept, [Next]_vars
  PROVE  CountsKept'
<1>1. StepTaken /\ answers' = answers
  BY StepsTaken, DataSteps DEF StateOK
<1>2. CASE \E c \in Cluster : Serve(c)
  BY <1>2, CountsServed
<1>3. CASE ~ \E c \in Cluster : Serve(c)
  <2>1. indicators' = indicators
    <3>1. ASSUME NEW c \in Cluster, Write(c) PROVE indicators' = indicators
      BY ZenonT(30), <3>1 DEF Write
    <3> QED BY <1>3, <3>1 DEF Next, vars, Ask, LogVersions, ResetWriters, Call, Leave
  <2>2. ASSUME NEW d, NEW q PROVE AnswerTo(d, q)' = AnswerTo(d, q)
    BY <1>1 DEF AnswerTo
  <2>3. ASSUME NEW i \in CountingStages, NEW c \in Cluster
        PROVE  Passed(i, c)' <=> Passed(i, c)
    <3>1. i \in 1 .. 52 /\ Stages[i].given[1] = "always" /\ Stages[i].handler \in {"metric", "total"}
      BY CountingPlaced DEF CountsAt, CountingStages
    <3>2. Stages[i].handler \notin Pausing \cup {"files"} /\ Wanted(Stages[i].given)
      BY <3>1 DEF Pausing, Wanted
    <3> QED BY <1>1, <1>3, <3>1, <3>2 DEF StepTaken
  <2>4. ASSUME NEW i \in CountingStages PROVE Answered(i)' = Answered(i)
    BY <2>2, <2>3 DEF Answered
  <2> QED BY <2>1, <2>4 DEF CountsKept
<1> QED BY <1>2, <1>3

\* A legacy query that is not wanted is needed by no cluster: all have answered the
\* generic one.
LEMMA UnwantedLegacy ==
  ASSUME StateOK, CountsKept, position \in 1 .. 65, NEW part, NEW handler, NEW query, NEW generic,
         LegacyAt(position, part, handler, query, generic), ~Wanted(Stages[position].given),
         NEW c \in Cluster
  PROVE  AnswerTo(c, QueryOf(part, generic)) # <<>>
<1>1. PICK j \in CountingStages : CountsAt(j, part, generic)
  BY DEF LegacyAt
<1>2. MetricAt(j) = <<part, generic>> /\ QueryAt(j) = QueryOf(part, generic)
  BY <1>1 DEF CountsAt, MetricAt, QueryAt
<1>3. ~Found(part, generic, FALSE)
  BY DEF LegacyAt, Wanted, Current
<1>4. ~(Cardinality(Cluster) - Cardinality(Answered(j)) > 0)
  BY <1>2, <1>3 DEF Found, CountsKept
<1>5. Cardinality(Answered(j)) = Cardinality(Cluster)
  <2>1. Cardinality(Answered(j)) \in 0 .. Cardinality(Cluster) /\ Cardinality(Cluster) \in Nat
    BY AnsweredFinite, InventoryAssumption, FS_CardinalityType
  <2> QED BY <1>4, <2>1
<1>6. Answered(j) = Cluster
  BY <1>5, InventoryAssumption, FS_Subset DEF Answered
<1> QED BY <1>2, <1>6 DEF Answered

\* A cluster answers the legacy query of a stage that has been passed and not the
\* generic one.
Replaced(i, c) ==
  Passed(i, c) /\ AnswerTo(c, QueryOf(Stages[i].part, Stages[i].given[2])) = <<>>

NodeRecorded(i, c) ==
  \A s \in AllSeries(c, Stages[i].query) : \A n \in getNode(data[c], s, "node") :
    \A e \in NodeEffectsOf(Stages[i].query, s) : e.attribute \in DOMAIN data[c].nodes[n].values

TotalRecorded(i, c) ==
  AnswerTo(c, QueryAt(i)) # <<>> =>
    \A e \in ClusterEffects : e.metric = Stages[i].query => e.attribute \in DOMAIN data[c].totals

NodeExporter(c) ==
  LET answer == AnswerTo(c, "nodeExporter")
  IN IF answer = <<>> THEN {} ELSE NodeIndicator(answer[Len(answer)])

RecordsKept ==
  /\ \A c \in Cluster : Passed(7, c) => NodeExporter(c) \subseteq data[c].exporters
  /\ \A i \in LegacyNodeStages : \A c \in Cluster : Replaced(i, c) => NodeRecorded(i, c)
  /\ \A i \in LegacyTotalStages : \A c \in Cluster : Replaced(i, c) => TotalRecorded(i, c)

\* What is recorded stays.
LEMMA RecordsGrow ==
  ASSUME NEW c \in Cluster, Grown(data[c], data'[c]), answers' = answers, NEW i
  PROVE  /\ NodeRecorded(i, c) => NodeRecorded(i, c)'
         /\ TotalRecorded(i, c) => TotalRecorded(i, c)'
         /\ NodeExporter(c) \subseteq data[c].exporters => (NodeExporter(c) \subseteq data[c].exporters)'
<1>1. /\ DOMAIN data'[c].nodes = DOMAIN data[c].nodes
      /\ data[c].exporters \subseteq data'[c].exporters
      /\ DOMAIN data[c].totals \subseteq DOMAIN data'[c].totals
      /\ \A n \in DOMAIN data[c].nodes : DOMAIN data[c].nodes[n].values \subseteq DOMAIN data'[c].nodes[n].values
  BY DEF Grown
<1>2. ASSUME NEW q PROVE AnswerTo(c, q)' = AnswerTo(c, q) /\ AllSeries(c, q)' = AllSeries(c, q)
  BY DEF AnswerTo, AllSeries
<1>3. ASSUME NEW s
      PROVE  getNode(data'[c], s, "node") = getNode(data[c], s, "node") /\ getNode(data[c], s, "node") \subseteq DOMAIN data[c].nodes
  BY <1>1 DEF getNode
<1>4. ASSUME NodeRecorded(i, c) PROVE NodeRecorded(i, c)'
  BY <1>1, <1>2, <1>3, <1>4 DEF NodeRecorded
<1>5. ASSUME TotalRecorded(i, c) PROVE TotalRecorded(i, c)'
  BY <1>1, <1>2, <1>5 DEF TotalRecorded
<1>6. NodeExporter(c)' = NodeExporter(c)
  BY <1>2 DEF NodeExporter
<1> QED BY <1>1, <1>4, <1>5, <1>6

\* A stage that serves a cluster records what it answers.
LEMMA NodeServed ==
  ASSUME StateOK, NEW i \in LegacyNodeStages, NEW c \in Cluster, i = position, Serve(c), answers' = answers
  PROVE  NodeRecorded(i, c)'
<1>1. PICK query, generic : LegacyAt(i, "node", "metric", query, generic)
  BY LegacyStages
<1>2. /\ i \in 4 .. 65 /\ Stages[i].handler = "metric" /\ Stages[i].arg = Stages[i].query
      /\ QueryAt(i) = Stages[i].query /\ Stages[i].query \notin Generic
  BY <1>1, LegacyStages DEF LegacyAt, QueryAt, QueryOf
<1>3. NodeLabel(Stages[i].given) = "node"
  BY <1>1 DEF LegacyAt, NodeLabel
<1> DEFINE answer == AnswerTo(c, Stages[i].query)
           cl == data[c]
           d == HandleAll(Stages[i], cl, answer)
<1>4. data'[c] = d
  BY <1>2, ServeGives DEF StateOK, DataWellFormed, Served
<1>5. IsSequence(answer) /\ ClusterOK(cl)
  BY AnswersGiven DEF StateOK, DataWellFormed
<1>6. Grown(cl, d)
  <2>1. Stages[i].handler \in KeepingHandlers
    BY <1>2 DEF KeepingHandlers
  <2> QED BY <1>5, <2>1, AnswerKept
<1>7. AllSeries(c, Stages[i].query)' = {answer[j] : j \in 1 .. Len(answer)}
  BY DEF AllSeries, AnswerTo
<1> HIDE DEF answer, cl
<1>8. ASSUME NEW j \in 1 .. Len(answer), NEW n \in getNode(d, answer[j], "node"),
             NEW e \in NodeEffectsOf(Stages[i].query, answer[j])
      PROVE  e.attribute \in DOMAIN d.nodes[n].values
  <2>1. n \in getNode(cl, answer[j], NodeLabel(Stages[i].given))
    BY <1>3, <1>6 DEF getNode, Grown
  <2>2. {f.attribute : f \in NodeEffectsOf(Stages[i].arg, answer[j])} \ {None} \subseteq DOMAIN d.nodes[n].values
    BY <1>2, <1>5, <2>1, MetricAnswer
  <2>3. e.attribute # None
    <3>1. e \in NodeEffects /\ e.metric \notin {"limits", "requests"}
      BY <1>2 DEF NodeEffectsOf, Generic
    <3>2. e.attribute \in MeasuredColumns
      BY <3>1, EffectsKnown
    <3>3. None \notin NodeColumns
      BY InventoryAssumption DEF NodeColumns
    <3> QED BY <3>2, <3>3, MeasuredColumnsKnown
  <2> QED BY <1>2, <2>2, <2>3
<1> HIDE DEF d
<1> QED BY <1>4, <1>7, <1>8 DEF NodeRecorded

LEMMA TotalServed ==
  ASSUME StateOK, NEW i \in LegacyTotalStages, NEW c \in Cluster, i = position, Serve(c), answers' = answers
  PROVE  TotalRecorded(i, c)'
<1>1. PICK query, generic : LegacyAt(i, "cluster", "total", query, generic)
  BY LegacyStages
<1>2. Stages[i].handler = "total" /\ Stages[i].arg = Stages[i].query /\ Stages[i].query \notin Generic
  BY <1>1 DEF LegacyAt
<1> DEFINE answer == AnswerTo(c, QueryAt(i))
           cl == data[c]
           d == HandleAll(Stages[i], cl, answer)
<1>3. data'[c] = d
  BY <1>2, ServeGives DEF StateOK, DataWellFormed, Served
<1>4. IsSequence(answer) /\ ClusterOK(cl)
  BY AnswersGiven DEF StateOK, DataWellFormed
<1>5. AnswerTo(c, QueryAt(i))' = answer
  BY DEF AnswerTo
<1> HIDE DEF answer, cl
<1>6. ASSUME answer # <<>>, NEW e \in ClusterEffects, e.metric = Stages[i].query
      PROVE  e.attribute \in DOMAIN d.totals
  <2>1. e.resource = None
    <3>1. \A f \in ClusterEffects : f.metric \notin Generic => f.resource = None
      BY DEF ClusterEffects, ClusterEffect, Generic
    <3> QED BY <1>2, <1>6, <3>1
  <2> QED BY <1>2, <1>4, <1>6, <2>1, TotalAnswer
<1> HIDE DEF d
<1> QED BY <1>3, <1>5, <1>6 DEF TotalRecorded

LEMMA ExporterServed ==
  ASSUME StateOK, NEW c \in Cluster, position = 7, Serve(c), answers' = answers
  PROVE  (NodeExporter(c) \subseteq data[c].exporters)'
<1>1. Stages[7].handler = "exporter" /\ Stages[7].arg = "node" /\ QueryAt(7) = "nodeExporter"
  <2> DEFINE AskedAt(i, part, query, handler, arg) ==
               /\ Stages[i].part = part /\ Stages[i].query = query
               /\ Stages[i].handler = handler /\ Stages[i].arg = arg
  <2>1. ASSUME NEW i, NEW part, NEW query, NEW handler, NEW arg, Stages[i] = Asked(part, query, handler, arg)
        PROVE  AskedAt(i, part, query, handler, arg)
    BY <2>1 DEF Asked, Stage
  <2> HIDE DEF AskedAt
  <2>2. AskedAt(7, "node", "nodeExporter", "exporter", "node")
    BY <2>1, Placed
  <2> QED BY <2>2 DEF AskedAt, QueryAt, QueryOf
<1> DEFINE answer == AnswerTo(c, "nodeExporter")
           d == DetermineExporter("node", data[c], answer)
<1>2. data'[c] = d
  BY <1>1, ServeGives DEF StateOK, DataWellFormed, Served
<1>3. ClusterOK(data[c])
  BY DEF StateOK, DataWellFormed
<1>4. AnswerTo(c, "nodeExporter")' = answer
  BY DEF AnswerTo
<1> HIDE DEF answer
<1>5. answer # <<>> => NodeIndicator(answer[Len(answer)]) \subseteq d.exporters
  BY <1>3, ExporterGrows
<1> HIDE DEF d
<1> QED BY <1>2, <1>4, <1>5 DEF NodeExporter

LEMMA RecordsSteps ==
  ASSUME StateOK, CountsKept, RecordsKept, [Next]_vars
  PROVE  RecordsKept'
<1>1. StepTaken /\ answers' = answers /\ position \in 1 .. 66
  BY StepsTaken, DataSteps DEF StateOK, Control
<1>2. ASSUME NEW i \in 7 .. 52, NEW c \in Cluster, Passed(i, c) PROVE Grown(data[c], data'[c])
  <2>1. position > 3
    BY <1>1, <1>2 DEF Passed
  <2> QED BY <2>1, DataSteps DEF StateOK
<1>3. ASSUME NEW c, NEW q PROVE AnswerTo(c, q)' = AnswerTo(c, q)
  BY <1>1 DEF AnswerTo
<1>4. ASSUME NEW c \in Cluster, Passed(7, c)' PROVE (NodeExporter(c) \subseteq data[c].exporters)'
  <2>1. CASE Passed(7, c)
    BY <1>1, <1>2, <2>1, RecordsGrow DEF RecordsKept
  <2>2. CASE ~Passed(7, c)
    <3>1. 7 = position /\ (Serve(c) \/ Stages[7].handler \in Pausing \cup {"files"} \/ ~Wanted(Stages[7].given))
      BY <1>1, <1>4, <2>2 DEF StepTaken
    <3>2. Stages[7].handler = "exporter" /\ Stages[7].given[1] = "always"
      <4>1. ASSUME NEW part, NEW query, NEW handler, NEW arg, Stages[7] = Asked(part, query, handler, arg)
            PROVE  Stages[7].handler = handler /\ Stages[7].given[1] = "always"
        BY <4>1 DEF Asked, Stage
      <4>2. Stages[7] = Asked("node", "nodeExporter", "exporter", "node")
        BY Placed
      <4> QED BY <4>1, <4>2
    <3>3. Serve(c)
      BY <3>1, <3>2 DEF Pausing, Wanted
    <3> QED BY <1>1, <3>1, <3>3, ExporterServed
  <2> QED BY <2>1, <2>2
<1>5. ASSUME NEW i, NEW c \in Cluster, Replaced(i, c)', i \in LegacyNodeStages \cup LegacyTotalStages
      PROVE  Replaced(i, c) \/ (i = position /\ Serve(c))
  <2>1. PICK part, handler, query, generic : LegacyAt(i, part, handler, query, generic)
    BY <1>5, LegacyStages
  <2>2. i \in 1 .. 52 /\ handler \in {"metric", "total"}
    BY <1>5, <2>1, LegacyStages DEF LegacyAt
  <2>3. AnswerTo(c, QueryOf(part, generic)) = <<>> /\ Passed(i, c)'
    BY <1>3, <1>5, <2>1 DEF Replaced, LegacyAt
  <2>4. CASE Passed(i, c)
    BY <1>3, <1>5, <2>4 DEF Replaced
  <2>5. CASE ~Passed(i, c)
    <3>1. i = position /\ (Serve(c) \/ Stages[i].handler \in Pausing \cup {"files"} \/ ~Wanted(Stages[i].given))
      BY <1>1, <2>2, <2>3, <2>5 DEF StepTaken
    <3>2. Stages[i].handler \notin Pausing \cup {"files"}
      BY <2>1, <2>2 DEF LegacyAt, Pausing
    <3>3. Wanted(Stages[i].given)
      BY <2>1, <2>2, <2>3, <3>1, UnwantedLegacy
    <3> QED BY <3>1, <3>2, <3>3
  <2> QED BY <2>4, <2>5
<1>6. ASSUME NEW i \in LegacyNodeStages, NEW c \in Cluster, Replaced(i, c)' PROVE NodeRecorded(i, c)'
  <2>1. CASE Replaced(i, c)
    <3>1. i \in 7 .. 52 /\ Passed(i, c) /\ NodeRecorded(i, c)
      BY <2>1, LegacyStages DEF Replaced, RecordsKept
    <3> QED BY <1>1, <1>2, <3>1, RecordsGrow
  <2>2. CASE ~Replaced(i, c)
    BY <1>1, <1>5, <1>6, <2>2, NodeServed
  <2> QED BY <2>1, <2>2
<1>7. ASSUME NEW i \in LegacyTotalStages, NEW c \in Cluster, Replaced(i, c)' PROVE TotalRecorded(i, c)'
  <2>1. CASE Replaced(i, c)
    <3>1. i \in 7 .. 52 /\ Passed(i, c) /\ TotalRecorded(i, c)
      BY <2>1, LegacyStages DEF Replaced, RecordsKept
    <3> QED BY <1>1, <1>2, <3>1, RecordsGrow
  <2>2. CASE ~Replaced(i, c)
    BY <1>1, <1>5, <1>7, <2>2, TotalServed
  <2> QED BY <2>1, <2>2
<1> QED BY <1>4, <1>6, <1>7 DEF RecordsKept

-----------------------------------------------------------------------------
(* Calls *)

\* The stages that make the calls the property is about.
CallsAt(i, part, block, given) ==
  /\ Stages[i].part = part /\ Stages[i].arg = block
  /\ Stages[i].handler = "calls" /\ Stages[i].given = given

LEMMA CallsPlaced ==
  /\ CallsAt(38, "node", "reservation", <<"always">>) /\ CallsAt(42, "node", "wrappers", <<"exporter", "node">>)
  /\ CallsAt(51, "cluster", "conditional", <<"always">>)
  /\ CallsAt(52, "cluster", "wrappers", <<"exporter", "node">>)
<1>1. ASSUME NEW i, NEW part, NEW query, NEW block, NEW given, Stages[i] = Stage(part, query, "calls", block, given)
      PROVE  CallsAt(i, part, block, given)
  BY <1>1 DEF CallsAt, Stage
<1>2. ASSUME NEW i, NEW part, NEW block, NEW given, Stages[i] = Calls(part, block, given)
      PROVE  CallsAt(i, part, block, given)
  BY <1>1, <1>2 DEF Calls
<1> QED BY <1>2, Placed

HasAnswer(c, q) == AnswerTo(c, q) # <<>>

CallsMade ==
  \A c \in Cluster :
    /\ position > 38 =>
         CallsOf("node", reservationMetrics(HasAnswer(c, "requests")), HasAnswer(c, "requests")) \subseteq calls
    /\ position > 42 => \A w \in NodeExporter(c) : CallsOf("node", nodeMetrics, w) \subseteq calls
    /\ position > 51 =>
         CallsOf("cluster", conditionalMetrics(HasAnswer(c, ClusterQuery("requests"))), HasAnswer(c, ClusterQuery("requests")))
           \subseteq calls
    /\ position > 52 => \A w \in NodeExporter(c) : CallsOf("cluster", clusterMetrics, w) \subseteq calls

\* A stage of calls is left by making those that are wanted.
LEMMA CallTaken ==
  ASSUME StateOK, [Next]_vars, NEW i \in {38, 42, 51, 52}, position = i, position' # i
  PROVE  calls' = IF Wanted(Stages[i].given) THEN calls \cup CallsOfBlock(Stages[i].part, Stages[i].arg)
                  ELSE calls
<1>1. Stages[i].handler = "calls"
  BY CallsPlaced DEF CallsAt
<1>2. ~started
  BY <1>1 DEF StateOK, Control, Pausing
<1>3. ASSUME NEW c \in Cluster, Serve(c) \/ Write(c) PROVE FALSE
  BY <1>2, <1>3 DEF Serve, Write
<1>4. ~Leave /\ ~Ask /\ ~LogVersions /\ ~ResetWriters /\ ~(UNCHANGED vars)
  BY <1>1, <1>2 DEF Leave, Ask, LogVersions, ResetWriters, Current, vars
<1>5. Call
  BY <1>3, <1>4 DEF Next
<1> QED BY <1>5 DEF Call, Current

\* Calls are not withdrawn.
LEMMA CallsGrow ==
  ASSUME [Next]_vars
  PROVE  calls \subseteq calls'
<1>1. ASSUME NEW c \in Cluster, Serve(c) PROVE calls' = calls
  BY ZenonT(30), <1>1 DEF Serve
<1>2. ASSUME NEW c \in Cluster, Write(c) PROVE calls' = calls
  BY ZenonT(30), <1>2 DEF Write
<1> QED BY <1>1, <1>2 DEF Next, vars, Ask, LogVersions, ResetWriters, Call, Leave

\* The form a cluster answers is one of those asked for.
LEMMA FormFound ==
  ASSUME StateOK, CountsKept, NEW i \in CountingStages, NEW part, NEW metric, CountsAt(i, part, metric),
         position > i, NEW c \in Cluster
  PROVE  HasAnswer(c, QueryOf(part, metric)) \in FoundIndicatorCounter(part, metric)
<1> DEFINE f == HasAnswer(c, QueryOf(part, metric))
           n == Cardinality(Answered(i))
           all == Cardinality(Cluster)
<1>1. MetricAt(i) = <<part, metric>> /\ QueryAt(i) = QueryOf(part, metric)
  BY DEF CountsAt, MetricAt, QueryAt
<1>2. indicators[<<part, metric>>] = n
  BY <1>1 DEF CountsKept
<1>3. c \in Answered(i) <=> f
  BY <1>1 DEF Answered, Passed, HasAnswer
<1>4. n \in 0 .. all /\ all \in Nat /\ IsFiniteSet(Cluster) /\ IsFiniteSet(Answered(i))
  BY AnsweredFinite, InventoryAssumption, FS_CardinalityType
<1>5. CASE f
  <2>1. n # 0
    BY <1>3, <1>4, <1>5, FS_EmptySet
  <2>2. Found(part, metric, TRUE)
    <3> HIDE DEF n, all
    <3>1. n > 0
      BY <1>4, <2>1
    <3> QED BY <1>2, <3>1 DEF Found
  <2>3. f = TRUE
    BY <1>5 DEF HasAnswer
  <2> QED BY <2>2, <2>3 DEF FoundIndicatorCounter
<1>6. CASE ~f
  <2>1. n # all
    <3>1. Answered(i) # Cluster /\ Answered(i) \subseteq Cluster
      BY <1>3, <1>6 DEF Answered
    <3> QED BY <1>4, <3>1, FS_Subset
  <2>2. Found(part, metric, FALSE)
    <3>1. indicators[<<part, metric>>] = n /\ all - n > 0
      <4> HIDE DEF n, all
      <4> QED BY <1>2, <1>4, <2>1
    <3> QED BY <3>1 DEF Found
  <2>3. f = FALSE
    BY <1>6 DEF HasAnswer
  <2> QED BY <2>2, <2>3 DEF FoundIndicatorCounter
<1> QED BY <1>5, <1>6

\* The wrapper that fits a cluster's node exporter is one of those used.
LEMMA WrapperFound ==
  ASSUME StateOK, RecordsKept, position > 7, NEW c \in Cluster, NEW w \in NodeExporter(c)
  PROVE  w \in GetQueryWrappers /\ Wanted(<<"exporter", "node">>)
<1>1. w \in data[c].exporters
  BY DEF RecordsKept, Passed
<1>2. w \in {"nodeLabel", "podIp", "other"}
  BY DEF NodeExporter, NodeIndicator
<1>3. {"nodeLabel", "podIp", "other"} \subseteq {Wrappers[i] : i \in DOMAIN Wrappers}
  <2>1. DOMAIN Wrappers = 1 .. 3 /\ Wrappers[1] = "nodeLabel" /\ Wrappers[2] = "podIp" /\ Wrappers[3] = "other"
    BY DEF Wrappers
  <2> QED BY <2>1
<1>4. w \in GetQueryWrappers
  BY <1>1, <1>2, <1>3 DEF GetQueryWrappers
<1>5. Wanted(<<"exporter", "node">>)
  BY <1>4 DEF Wanted, HasExporter
<1> QED BY <1>4, <1>5

LEMMA CallsSteps ==
  ASSUME StateOK, CountsKept, RecordsKept, CallsMade, [Next]_vars
  PROVE  CallsMade'
<1>1. StepTaken /\ answers' = answers /\ position \in 1 .. 66 /\ position' \in 1 .. 66
  BY StepsTaken, DataSteps DEF StateOK, Control, StepTaken
<1>2. ASSUME NEW c, NEW q PROVE AnswerTo(c, q)' = AnswerTo(c, q)
  BY <1>1 DEF AnswerTo
<1>3. ASSUME NEW c, NEW q PROVE HasAnswer(c, q)' = HasAnswer(c, q) /\ NodeExporter(c)' = NodeExporter(c)
  BY <1>2 DEF HasAnswer, NodeExporter
\* A stage of calls is left only to the next one.
<1>4. ASSUME NEW i \in {38, 42, 51, 52}, position' > i, ~(position > i) PROVE position = i /\ position' # i
  BY <1>1, <1>4 DEF StepTaken
<1>5. calls \subseteq calls'
  BY CallsGrow
<1>6. ASSUME NEW c \in Cluster, position = 38, position' # 38
      PROVE  CallsOf("node", reservationMetrics(HasAnswer(c, "requests")), HasAnswer(c, "requests")) \subseteq calls'
  <2> DEFINE f == HasAnswer(c, "requests")
  <2>1. QueryOf("node", "requests") = "requests" /\ position > 32
    BY <1>6 DEF QueryOf
  <2>2. f \in FoundIndicatorCounter("node", "requests")
    BY <2>1, CountingPlaced, FormFound DEF CountingStages
  <2>3. /\ Wanted(Stages[38].given) /\ Stages[38].part = "node" /\ Stages[38].arg = "reservation"
    BY CallsPlaced DEF CallsAt, Wanted
  <2>4. calls' = calls \cup CallsOfBlock("node", "reservation")
    BY <1>6, <2>3, CallTaken
  <2>5. CallsOfBlock("node", "reservation") =
          UNION {CallsOf("node", reservationMetrics(g), g) : g \in FoundIndicatorCounter("node", "requests")}
    BY DEF CallsOfBlock
  <2> HIDE DEF f
  <2> QED BY <2>2, <2>4, <2>5 DEF f
<1>7. ASSUME NEW c \in Cluster, position = 51, position' # 51
      PROVE  CallsOf("cluster", conditionalMetrics(HasAnswer(c, ClusterQuery("requests"))), HasAnswer(c, ClusterQuery("requests")))
               \subseteq calls'
  <2> DEFINE f == HasAnswer(c, ClusterQuery("requests"))
  <2>1. QueryOf("cluster", "requests") = ClusterQuery("requests") /\ position > 46
    BY <1>7 DEF QueryOf
  <2>2. f \in FoundIndicatorCounter("cluster", "requests")
    BY <2>1, CountingPlaced, FormFound DEF CountingStages
  <2>3. /\ Wanted(Stages[51].given) /\ Stages[51].part = "cluster" /\ Stages[51].arg = "conditional"
    BY CallsPlaced DEF CallsAt, Wanted
  <2>4. calls' = calls \cup CallsOfBlock("cluster", "conditional")
    BY <1>7, <2>3, CallTaken
  <2>5. CallsOfBlock("cluster", "conditional") =
          UNION {CallsOf("cluster", conditionalMetrics(g), g) : g \in FoundIndicatorCounter("cluster", "requests")}
    BY DEF CallsOfBlock
  <2> HIDE DEF f
  <2> QED BY <2>2, <2>4, <2>5 DEF f
<1>8. ASSUME NEW c \in Cluster, NEW w \in NodeExporter(c), position = 42, position' # 42
      PROVE  CallsOf("node", nodeMetrics, w) \subseteq calls'
  <2>1. w \in GetQueryWrappers /\ Wanted(<<"exporter", "node">>)
    BY <1>8, WrapperFound
  <2>2. Stages[42].given = <<"exporter", "node">> /\ Stages[42].part = "node" /\ Stages[42].arg = "wrappers"
    BY CallsPlaced DEF CallsAt
  <2>3. calls' = calls \cup CallsOfBlock("node", "wrappers")
    BY <1>8, <2>1, <2>2, CallTaken
  <2>4. CallsOfBlock("node", "wrappers") = UNION {CallsOf("node", nodeMetrics, v) : v \in GetQueryWrappers}
    BY DEF CallsOfBlock
  <2> QED BY <2>1, <2>3, <2>4
<1>9. ASSUME NEW c \in Cluster, NEW w \in NodeExporter(c), position = 52, position' # 52
      PROVE  CallsOf("cluster", clusterMetrics, w) \subseteq calls'
  <2>1. w \in GetQueryWrappers /\ Wanted(<<"exporter", "node">>)
    BY <1>9, WrapperFound
  <2>2. Stages[52].given = <<"exporter", "node">> /\ Stages[52].part = "cluster" /\ Stages[52].arg = "wrappers"
    BY CallsPlaced DEF CallsAt
  <2>3. calls' = calls \cup CallsOfBlock("cluster", "wrappers")
    BY <1>9, <2>1, <2>2, CallTaken
  <2>4. CallsOfBlock("cluster", "wrappers") = UNION {CallsOf("cluster", clusterMetrics, v) : v \in GetQueryWrappers}
    BY DEF CallsOfBlock
  <2> QED BY <2>1, <2>3, <2>4
<1>10. ASSUME NEW c \in Cluster, position' > 38
       PROVE  CallsOf("node", reservationMetrics(HasAnswer(c, "requests")), HasAnswer(c, "requests")) \subseteq calls'
  BY <1>4, <1>5, <1>6, <1>10 DEF CallsMade
<1>11. ASSUME NEW c \in Cluster, position' > 42, NEW w \in NodeExporter(c)
       PROVE  CallsOf("node", nodeMetrics, w) \subseteq calls'
  BY <1>4, <1>5, <1>8, <1>11 DEF CallsMade
<1>12. ASSUME NEW c \in Cluster, position' > 51
       PROVE  CallsOf("cluster", conditionalMetrics(HasAnswer(c, ClusterQuery("requests"))), HasAnswer(c, ClusterQuery("requests")))
                \subseteq calls'
  BY <1>4, <1>5, <1>7, <1>12 DEF CallsMade
<1>13. ASSUME NEW c \in Cluster, position' > 52, NEW w \in NodeExporter(c)
       PROVE  CallsOf("cluster", clusterMetrics, w) \subseteq calls'
  BY <1>4, <1>5, <1>9, <1>13 DEF CallsMade
<1> QED BY <1>3, <1>10, <1>11, <1>12, <1>13 DEF CallsMade

-----------------------------------------------------------------------------
(* The columns of the files *)

\* A row all of whose cells fit.
LEMMA FitsAligned ==
  ASSUME NEW row, NEW header, Part(row, Len(header), 0, header)
  PROVE  Aligned(row, header)
<1>1. DOMAIN row = 1 .. Len(row) /\ Len(row) \in Nat
  BY DEF Part, Fits, IsSequence
<1>2. \A i \in 1 .. Len(row) : 0 + i = i
  OBVIOUS
<1> QED BY <1>1, <1>2 DEF Part, Fits, Aligned

\* A header is a row.
LEMMA HeaderAligned ==
  ASSUME NEW header, IsSequence(header)
  PROVE  Aligned(header, header)
BY DEF IsSequence, Aligned

\* Columns of which some have values.
LEMMA KnownCells ==
  ASSUME NEW columns, IsSequence(columns), NEW known
  PROVE  /\ IsSequence(Known(columns, known)) /\ Len(Known(columns, known)) = Len(columns)
         /\ \A i \in 1 .. Len(columns) : Known(columns, known)[i] \in {"", columns[i]}
<1> DEFINE n == Len(columns)
           f == Known(columns, known)
<1>1. DOMAIN columns = 1 .. n /\ n \in Nat
  BY DEF IsSequence
<1>2. f = [i \in 1 .. n |-> IF columns[i] \in known THEN columns[i] ELSE ""]
  BY <1>1 DEF Known
<1> HIDE DEF n, f
<1>3. f = [i \in 1 .. n |-> f[i]] /\ \A i \in 1 .. n : f[i] \in {"", columns[i]}
  BY <1>2
<1> QED BY <1>1, <1>3, FunctionLength DEF f, n

\* The same of a part of a row.
LEMMA KnownFits ==
  ASSUME NEW columns, NEW m \in Nat, NEW k \in Nat, NEW header, NEW known,
         IsSequence(columns), Len(columns) = m, \A i \in 1 .. m : columns[i] = header[k + i]
  PROVE  Part(Known(columns, known), m, k, header)
<1> DEFINE f == Known(columns, known)
<1>1. IsSequence(f) /\ Len(f) = m /\ \A i \in 1 .. m : f[i] \in {"", columns[i]}
  BY KnownCells
<1> HIDE DEF f
<1>2. \A i \in 1 .. m : f[i] \in {"", header[k + i]}
  BY <1>1
<1> QED BY <1>1, <1>2 DEF Part, Fits, f

\* Rows of clusters and the rows of all files of no more than names.
LEMMA NamesAligned ==
  /\ Aligned(ClusterConfigRow, ClusterConfigHeader)
  /\ Aligned(CrqConfigRow, CrqConfigHeader)
  /\ Aligned(RqConfigRow, RqConfigHeader)
<1>1. IsSequence(ClusterConfigHeader) /\ IsSequence(CrqConfigHeader) /\ IsSequence(RqConfigHeader)
  BY DEF ClusterConfigHeader, CrqConfigHeader, RqConfigHeader, IsSequence
<1>2. /\ ClusterConfigRow = ClusterConfigHeader /\ CrqConfigRow = CrqConfigHeader
      /\ RqConfigRow = RqConfigHeader
  BY DEF ClusterConfigRow, CrqConfigRow, RqConfigRow, ClusterConfigHeader, CrqConfigHeader, RqConfigHeader
<1> QED BY <1>1, <1>2, HeaderAligned

LEMMA ClusterRowAligned ==
  ASSUME NEW known
  PROVE  Aligned(ClusterAttributeRow(known), ClusterAttributeHeader)
<1> DEFINE a == <<"Name", "VirtualTechnology", "VirtualDomain">>
           v == <<"CpuLimit", "CpuRequest", "MemoryLimit", "MemoryRequest">>
           b == <<"K8sVersion">>
           vs == Known(v, known)
           header == ClusterAttributeHeader
<1>1. ClusterAttributeRow(known) = (a \o vs) \o b
  BY DEF ClusterAttributeRow
<1>2. /\ Len(header) = 8
      /\ header[1] = "Name" /\ header[2] = "VirtualTechnology" /\ header[3] = "VirtualDomain"
      /\ header[4] = "CpuLimit" /\ header[5] = "CpuRequest" /\ header[6] = "MemoryLimit"
      /\ header[7] = "MemoryRequest" /\ header[8] = "K8sVersion"
  BY DEF ClusterAttributeHeader
<1>3. /\ IsSequence(a) /\ Len(a) = 3
      /\ a[1] = "Name" /\ a[2] = "VirtualTechnology" /\ a[3] = "VirtualDomain"
  BY DEF IsSequence
<1>4. /\ IsSequence(v) /\ Len(v) = 4
      /\ v[1] = "CpuLimit" /\ v[2] = "CpuRequest" /\ v[3] = "MemoryLimit" /\ v[4] = "MemoryRequest"
  BY DEF IsSequence
<1>5. IsSequence(b) /\ Len(b) = 1 /\ b[1] = "K8sVersion"
  BY DEF IsSequence
<1> HIDE DEF a, b, v, header
<1>6. Part(a, 3, 0, header)
  <2>1. \A i \in 1 .. 3 : i = 1 \/ i = 2 \/ i = 3
    OBVIOUS
  <2>2. 0 + 1 = 1 /\ 0 + 2 = 2 /\ 0 + 3 = 3
    OBVIOUS
  <2>3. \A i \in 1 .. 3 : a[i] = header[0 + i]
    BY ONLY <1>2, <1>3, <2>1, <2>2
  <2> QED BY <1>3, <2>3 DEF Part, Fits
<1>7. Part(vs, 4, 3, header)
  <2>1. \A i \in 1 .. 4 : i = 1 \/ i = 2 \/ i = 3 \/ i = 4
    OBVIOUS
  <2>2. 3 + 1 = 4 /\ 3 + 2 = 5 /\ 3 + 3 = 6 /\ 3 + 4 = 7
    OBVIOUS
  <2>3. \A i \in 1 .. 4 : v[i] = header[3 + i]
    BY ONLY <1>2, <1>4, <2>1, <2>2
  <2> QED BY <1>4, <2>3, KnownFits
<1> HIDE DEF vs
<1>8. Part(b, 1, 7, header)
  <2>1. \A i \in 1 .. 1 : i = 1
    OBVIOUS
  <2>2. 7 + 1 = 8
    OBVIOUS
  <2>3. \A i \in 1 .. 1 : b[i] = header[7 + i]
    BY ONLY <1>2, <1>5, <2>1, <2>2
  <2> QED BY <1>5, <2>3 DEF Part, Fits
<1>9. 0 + 3 = 3 /\ 3 + 4 = 7 /\ 0 + 7 = 7 /\ 7 + 1 = 8
  OBVIOUS
<1> DEFINE av == a \o vs
<1>10. Part(av, 7, 0, header)
  BY ONLY <1>6, <1>7, <1>9, PartsJoin DEF av
<1> HIDE DEF av
<1>11. Part(av \o b, 8, 0, header)
  BY ONLY <1>8, <1>9, <1>10, PartsJoin
<1> QED BY <1>1, <1>2, <1>11, FitsAligned DEF av, header

LEMMA NodeConfigRowAligned ==
  ASSUME NEW known
  PROVE  Aligned(NodeConfigRow(known), NodeConfigHeader)
<1> DEFINE a == <<"AuditTime", "ClusterName", "NodeName", "HwModel", "OsName">>
           both == <<"HwTotalCpus", "HwTotalPhysicalCpus">>
           cpus == IF "CapacityCpu" \in known THEN both ELSE Blank(2)
           x == IF "CapacityMemory" \in known THEN "HwTotalMemory" ELSE ""
           y == IF "NetworkSpeed" \in known THEN "HwMaxNetworkIoBps" ELSE ""
           b == <<"HwCoresPerCpu", "HwThreadsPerCore", x, y>>
           header == NodeConfigHeader
<1>1. NodeConfigRow(known) = (a \o cpus) \o b
  BY DEF NodeConfigRow
<1>2. /\ Len(header) = 11
      /\ header[1] = "AuditTime" /\ header[2] = "ClusterName" /\ header[3] = "NodeName"
      /\ header[4] = "HwModel" /\ header[5] = "OsName" /\ header[6] = "HwTotalCpus"
      /\ header[7] = "HwTotalPhysicalCpus" /\ header[8] = "HwCoresPerCpu"
      /\ header[9] = "HwThreadsPerCore" /\ header[10] = "HwTotalMemory"
      /\ header[11] = "HwMaxNetworkIoBps"
  BY DEF NodeConfigHeader
<1>3. /\ IsSequence(a) /\ Len(a) = 5
      /\ a[1] = "AuditTime" /\ a[2] = "ClusterName" /\ a[3] = "NodeName"
      /\ a[4] = "HwModel" /\ a[5] = "OsName"
  BY DEF IsSequence
<1>4. IsSequence(cpus) /\ Len(cpus) = 2 /\ cpus[1] \in {"", "HwTotalCpus"} /\ cpus[2] \in {"", "HwTotalPhysicalCpus"}
  <2>1. IsSequence(both) /\ Len(both) = 2 /\ both[1] = "HwTotalCpus" /\ both[2] = "HwTotalPhysicalCpus"
    BY DEF IsSequence
  <2> DEFINE none == Blank(2)
  <2>2. none = [i \in 1 .. 2 |-> none[i]] /\ none[1] = "" /\ none[2] = ""
    BY DEF Blank
  <2> HIDE DEF none, both
  <2>3. IsSequence(none) /\ Len(none) = 2
    BY <2>2, FunctionLength
  <2> QED BY <2>1, <2>2, <2>3 DEF none
<1>5. x \in {"", "HwTotalMemory"} /\ y \in {"", "HwMaxNetworkIoBps"}
  OBVIOUS
<1> HIDE DEF x, y
<1>6. /\ IsSequence(b) /\ Len(b) = 4
      /\ b[1] = "HwCoresPerCpu" /\ b[2] = "HwThreadsPerCore" /\ b[3] = x /\ b[4] = y
  BY DEF IsSequence
<1> HIDE DEF a, b, cpus, header
<1>7. Part(a, 5, 0, header)
  <2>1. \A i \in 1 .. 5 : i = 1 \/ i = 2 \/ i = 3 \/ i = 4 \/ i = 5
    OBVIOUS
  <2>2. 0 + 1 = 1 /\ 0 + 2 = 2 /\ 0 + 3 = 3 /\ 0 + 4 = 4 /\ 0 + 5 = 5
    OBVIOUS
  <2>3. \A i \in 1 .. 5 : a[i] = header[0 + i]
    BY ONLY <1>2, <1>3, <2>1, <2>2
  <2> QED BY <1>3, <2>3 DEF Part, Fits
<1>8. Part(cpus, 2, 5, header)
  <2>1. \A i \in 1 .. 2 : i = 1 \/ i = 2
    OBVIOUS
  <2>2. 5 + 1 = 6 /\ 5 + 2 = 7
    OBVIOUS
  <2>3. cpus[1] \in {"", header[5 + 1]} /\ cpus[2] \in {"", header[5 + 2]}
    BY ONLY <1>2, <1>4, <2>2
  <2>4. \A i \in 1 .. 2 : cpus[i] \in {"", header[5 + i]}
    BY ONLY <2>1, <2>3
  <2> QED BY <1>4, <2>4 DEF Part, Fits
<1>9. Part(b, 4, 7, header)
  <2>1. \A i \in 1 .. 4 : i = 1 \/ i = 2 \/ i = 3 \/ i = 4
    OBVIOUS
  <2>2. 7 + 1 = 8 /\ 7 + 2 = 9 /\ 7 + 3 = 10 /\ 7 + 4 = 11
    OBVIOUS
  <2>3. b[1] = header[7 + 1] /\ b[2] = header[7 + 2]
    BY ONLY <1>2, <1>6, <2>2
  <2>4. b[3] \in {"", header[7 + 3]} /\ b[4] \in {"", header[7 + 4]}
    BY ONLY <1>2, <1>5, <1>6, <2>2
  <2>5. \A i \in 1 .. 4 : b[i] \in {"", header[7 + i]}
    BY ONLY <2>1, <2>3, <2>4
  <2> QED BY <1>6, <2>5 DEF Part, Fits
<1>10. 0 + 5 = 5 /\ 5 + 2 = 7 /\ 0 + 7 = 7 /\ 7 + 4 = 11
  OBVIOUS
<1> DEFINE ac == a \o cpus
<1>11. Part(ac, 7, 0, header)
  BY ONLY <1>7, <1>8, <1>10, PartsJoin DEF ac
<1> HIDE DEF ac
<1>12. Part(ac \o b, 11, 0, header)
  BY ONLY <1>9, <1>10, <1>11, PartsJoin
<1> QED BY <1>1, <1>2, <1>12, FitsAligned DEF ac, header

LEMMA NodeRowAligned ==
  ASSUME NEW known
  PROVE  Aligned(NodeAttributeRow(known), NodeAttributeHeader)
<1> DEFINE a == <<"ClusterName", "NodeName", "VirtualTechnology", "VirtualDomain",
                  "VirtualDatacenter", "VirtualCluster", "OsArchitecture">>
           v == NodeValues
           vs == Known(v, known)
           p == <<"ProviderId", "K8sVersion">>
           l == <<"NodeLabels">>
           g == <<"GpuLabels">>
           b == <<"NodeTaints", "GpuVendor", "GpuModel", "GpuSharingStrategy", "GpuMpsCapable",
                  "GpuVgpuPresent", "GpuMigCapable", "GpuMigStrategy">>
           header == NodeAttributeHeader
<1>1. NodeAttributeRow(known) = ((((a \o vs) \o p) \o l) \o g) \o b
  BY DEF NodeAttributeRow
<1>2. /\ Len(header) = 42
      /\ header[1] = "ClusterName" /\ header[2] = "NodeName" /\ header[3] = "VirtualTechnology"
      /\ header[4] = "VirtualDomain" /\ header[5] = "VirtualDatacenter" /\ header[6] = "VirtualCluster"
      /\ header[7] = "OsArchitecture" /\ header[8] = "NetworkSpeed" /\ header[9] = "CpuLimit"
      /\ header[10] = "CpuRequest" /\ header[11] = "MemoryLimit" /\ header[12] = "MemoryRequest"
      /\ header[13] = "GpuLimit" /\ header[14] = "GpuRequest" /\ header[15] = "CapacityPods"
      /\ header[16] = "CapacityCpu" /\ header[17] = "CapacityMemory" /\ header[18] = "CapacityGpu"
      /\ header[19] = "CapacityEphemeralStorage" /\ header[20] = "CapacityHugePages" /\ header[21] = "AllocatablePods"
      /\ header[22] = "AllocatableCpu" /\ header[23] = "AllocatableMemory" /\ header[24] = "AllocatableGpu"
      /\ header[25] = "AllocatableEphemeralStorage" /\ header[26] = "AllocatableHugePages" /\ header[27] = "MemoryTotalBytes"
      /\ header[28] = "GpuTotal" /\ header[29] = "GpuMemoryTotal" /\ header[30] = "GpuReplicas"
      /\ header[31] = "ProviderId" /\ header[32] = "K8sVersion" /\ header[33] = "NodeLabels"
      /\ header[34] = "GpuLabels" /\ header[35] = "NodeTaints" /\ header[36] = "GpuVendor"
      /\ header[37] = "GpuModel" /\ header[38] = "GpuSharingStrategy" /\ header[39] = "GpuMpsCapable"
      /\ header[40] = "GpuVgpuPresent" /\ header[41] = "GpuMigCapable" /\ header[42] = "GpuMigStrategy"
  BY DEF NodeAttributeHeader
<1>3. /\ IsSequence(a) /\ Len(a) = 7
      /\ a[1] = "ClusterName" /\ a[2] = "NodeName" /\ a[3] = "VirtualTechnology"
      /\ a[4] = "VirtualDomain" /\ a[5] = "VirtualDatacenter" /\ a[6] = "VirtualCluster"
      /\ a[7] = "OsArchitecture"
  BY DEF IsSequence
<1>4. /\ IsSequence(v) /\ Len(v) = 23
      /\ v[1] = "NetworkSpeed" /\ v[2] = "CpuLimit" /\ v[3] = "CpuRequest"
      /\ v[4] = "MemoryLimit" /\ v[5] = "MemoryRequest" /\ v[6] = "GpuLimit"
      /\ v[7] = "GpuRequest" /\ v[8] = "CapacityPods" /\ v[9] = "CapacityCpu"
      /\ v[10] = "CapacityMemory" /\ v[11] = "CapacityGpu" /\ v[12] = "CapacityEphemeralStorage"
      /\ v[13] = "CapacityHugePages" /\ v[14] = "AllocatablePods" /\ v[15] = "AllocatableCpu"
      /\ v[16] = "AllocatableMemory" /\ v[17] = "AllocatableGpu" /\ v[18] = "AllocatableEphemeralStorage"
      /\ v[19] = "AllocatableHugePages" /\ v[20] = "MemoryTotalBytes" /\ v[21] = "GpuTotal"
      /\ v[22] = "GpuMemoryTotal" /\ v[23] = "GpuReplicas"
  BY DEF IsSequence, NodeValues
<1>5. /\ IsSequence(p) /\ Len(p) = 2
      /\ p[1] = "ProviderId" /\ p[2] = "K8sVersion"
  BY DEF IsSequence
<1>6. /\ IsSequence(l) /\ Len(l) = 1
      /\ l[1] = "NodeLabels"
  BY DEF IsSequence
<1>7. /\ IsSequence(g) /\ Len(g) = 1
      /\ g[1] = "GpuLabels"
  BY DEF IsSequence
<1>8. /\ IsSequence(b) /\ Len(b) = 8
      /\ b[1] = "NodeTaints" /\ b[2] = "GpuVendor" /\ b[3] = "GpuModel"
      /\ b[4] = "GpuSharingStrategy" /\ b[5] = "GpuMpsCapable" /\ b[6] = "GpuVgpuPresent"
      /\ b[7] = "GpuMigCapable" /\ b[8] = "GpuMigStrategy"
  BY DEF IsSequence
<1> HIDE DEF a, v, p, l, g, b, header
<1>9. Part(a, 7, 0, header)
  <2>1. \A i \in 1 .. 7 : i = 1 \/ i = 2 \/ i = 3 \/ i = 4 \/ i = 5 \/ i = 6 \/ i = 7
    OBVIOUS
  <2>2. 0 + 1 = 1 /\ 0 + 2 = 2 /\ 0 + 3 = 3 /\ 0 + 4 = 4 /\ 0 + 5 = 5 /\ 0 + 6 = 6 /\ 0 + 7 = 7
    OBVIOUS
  <2>3. \A i \in 1 .. 7 : a[i] = header[0 + i]
    BY ONLY <1>2, <1>3, <2>1, <2>2
  <2> QED BY <1>3, <2>3 DEF Part, Fits
<1>10. Part(vs, 23, 7, header)
  <2>1. \A i \in 1 .. 6 : v[i] = header[7 + i]
    <3>1. \A i \in 1 .. 6 : i = 1 \/ i = 2 \/ i = 3 \/ i = 4 \/ i = 5 \/ i = 6
      OBVIOUS
    <3>2. 7 + 1 = 8 /\ 7 + 2 = 9 /\ 7 + 3 = 10 /\ 7 + 4 = 11 /\ 7 + 5 = 12 /\ 7 + 6 = 13
      OBVIOUS
    <3> QED BY ONLY <1>2, <1>4, <3>1, <3>2
  <2>2. \A i \in 7 .. 12 : v[i] = header[7 + i]
    <3>1. \A i \in 7 .. 12 : i = 7 \/ i = 8 \/ i = 9 \/ i = 10 \/ i = 11 \/ i = 12
      OBVIOUS
    <3>2. 7 + 7 = 14 /\ 7 + 8 = 15 /\ 7 + 9 = 16 /\ 7 + 10 = 17 /\ 7 + 11 = 18 /\ 7 + 12 = 19
      OBVIOUS
    <3> QED BY ONLY <1>2, <1>4, <3>1, <3>2
  <2>3. \A i \in 13 .. 18 : v[i] = header[7 + i]
    <3>1. \A i \in 13 .. 18 : i = 13 \/ i = 14 \/ i = 15 \/ i = 16 \/ i = 17 \/ i = 18
      OBVIOUS
    <3>2. 7 + 13 = 20 /\ 7 + 14 = 21 /\ 7 + 15 = 22 /\ 7 + 16 = 23 /\ 7 + 17 = 24 /\ 7 + 18 = 25
      OBVIOUS
    <3> QED BY ONLY <1>2, <1>4, <3>1, <3>2
  <2>4. \A i \in 19 .. 23 : v[i] = header[7 + i]
    <3>1. \A i \in 19 .. 23 : i = 19 \/ i = 20 \/ i = 21 \/ i = 22 \/ i = 23
      OBVIOUS
    <3>2. 7 + 19 = 26 /\ 7 + 20 = 27 /\ 7 + 21 = 28 /\ 7 + 22 = 29 /\ 7 + 23 = 30
      OBVIOUS
    <3> QED BY ONLY <1>2, <1>4, <3>1, <3>2
  <2>5. \A i \in 1 .. 23 : v[i] = header[7 + i]
    BY ONLY <2>1, <2>2, <2>3, <2>4
  <2> QED BY <1>4, <2>5, KnownFits
<1>11. Part(p, 2, 30, header)
  <2>1. \A i \in 1 .. 2 : i = 1 \/ i = 2
    OBVIOUS
  <2>2. 30 + 1 = 31 /\ 30 + 2 = 32
    OBVIOUS
  <2>3. \A i \in 1 .. 2 : p[i] = header[30 + i]
    BY ONLY <1>2, <1>5, <2>1, <2>2
  <2> QED BY <1>5, <2>3 DEF Part, Fits
<1>12. Part(l, 1, 32, header)
  <2>1. \A i \in 1 .. 1 : i = 1
    OBVIOUS
  <2>2. 32 + 1 = 33
    OBVIOUS
  <2>3. \A i \in 1 .. 1 : l[i] = header[32 + i]
    BY ONLY <1>2, <1>6, <2>1, <2>2
  <2> QED BY <1>6, <2>3 DEF Part, Fits
<1>13. Part(g, 1, 33, header)
  <2>1. \A i \in 1 .. 1 : i = 1
    OBVIOUS
  <2>2. 33 + 1 = 34
    OBVIOUS
  <2>3. \A i \in 1 .. 1 : g[i] = header[33 + i]
    BY ONLY <1>2, <1>7, <2>1, <2>2
  <2> QED BY <1>7, <2>3 DEF Part, Fits
<1>14. Part(b, 8, 34, header)
  <2>1. \A i \in 1 .. 8 : i = 1 \/ i = 2 \/ i = 3 \/ i = 4 \/ i = 5 \/ i = 6 \/ i = 7 \/ i = 8
    OBVIOUS
  <2>2. 34 + 1 = 35 /\ 34 + 2 = 36 /\ 34 + 3 = 37 /\ 34 + 4 = 38 /\ 34 + 5 = 39 /\ 34 + 6 = 40 /\ 34 + 7 = 41 /\ 34 + 8 = 42
    OBVIOUS
  <2>3. \A i \in 1 .. 8 : b[i] = header[34 + i]
    BY ONLY <1>2, <1>8, <2>1, <2>2
  <2> QED BY <1>8, <2>3 DEF Part, Fits
<1> HIDE DEF vs
<1>15. /\ 0 + 7 = 7 /\ 7 + 23 = 30 /\ 0 + 30 = 30 /\ 30 + 2 = 32 /\ 0 + 32 = 32 /\ 32 + 1 = 33
      /\ 0 + 33 = 33 /\ 33 + 1 = 34 /\ 0 + 34 = 34 /\ 34 + 8 = 42
  OBVIOUS
<1> DEFINE r1 == a \o vs
<1>16. Part(r1, 30, 0, header)
  BY ONLY <1>9, <1>10, <1>15, PartsJoin DEF r1
<1> HIDE DEF r1
<1> DEFINE r2 == r1 \o p
<1>17. Part(r2, 32, 0, header)
  BY ONLY <1>16, <1>11, <1>15, PartsJoin DEF r2
<1> HIDE DEF r2
<1> DEFINE r3 == r2 \o l
<1>18. Part(r3, 33, 0, header)
  BY ONLY <1>17, <1>12, <1>15, PartsJoin DEF r3
<1> HIDE DEF r3
<1> DEFINE r4 == r3 \o g
<1>19. Part(r4, 34, 0, header)
  BY ONLY <1>18, <1>13, <1>15, PartsJoin DEF r4
<1> HIDE DEF r4
<1> DEFINE r5 == r4 \o b
<1>20. Part(r5, 42, 0, header)
  BY ONLY <1>19, <1>14, <1>15, PartsJoin DEF r5
<1> HIDE DEF r5
<1>21. Aligned(r5, header)
  <2>1. Len(header) = 42
    BY ONLY <1>2
  <2>2. Part(r5, Len(header), 0, header)
    BY ONLY <1>20, <2>1
  <2> QED BY ONLY <2>2, FitsAligned
<1>22. r5 = NodeAttributeRow(known)
  BY <1>1 DEF r1, r2, r3, r4, r5
<1> QED BY <1>21, <1>22 DEF header

\* A row of known columns and the header, part by part.
Matches(row, header) ==
  /\ IsSequence(row) /\ IsSequence(header) /\ Len(row) = Len(header)
  /\ \A i \in 1 .. Len(header) : row[i] \in {"", header[i]}

LEMMA MatchesJoin ==
  ASSUME NEW s, NEW t, NEW u, NEW w, Matches(s, t), Matches(u, w)
  PROVE  Matches(s \o u, t \o w)
<1> DEFINE m == Len(t)
           n == Len(w)
           r == s \o u
           h == t \o w
<1>1. IsJoin(r, s, u) /\ IsJoin(h, t, w)
  BY JoinedAt DEF Matches
<1>2. m \in Nat /\ n \in Nat /\ Len(s) = m /\ Len(u) = n
  BY DEF Matches, IsSequence
<1> HIDE DEF r, h
<1>3. /\ IsSequence(r) /\ IsSequence(h) /\ Len(r) = m + n /\ Len(h) = m + n
      /\ \A i \in 1 .. m : r[i] = s[i] /\ h[i] = t[i]
      /\ \A i \in 1 .. n : r[m + i] = u[i] /\ h[m + i] = w[i]
  BY <1>1, <1>2 DEF IsJoin
<1>4. /\ \A i \in 1 .. m : s[i] \in {"", t[i]}
      /\ \A i \in 1 .. n : u[i] \in {"", w[i]}
  BY DEF Matches
<1> HIDE DEF m, n
<1>5. ASSUME NEW i \in 1 .. (m + n) PROVE r[i] \in {"", h[i]}
  <2>1. CASE i \in 1 .. m
    BY <1>3, <1>4, <2>1
  <2>2. CASE i \notin 1 .. m
    <3> DEFINE j == i - m
    <3>1. j \in 1 .. n /\ i = m + j
      BY <1>2, <2>2
    <3> HIDE DEF j
    <3> QED BY <1>3, <1>4, <3>1
  <2> QED BY <2>1, <2>2
<1> QED BY <1>3, <1>5 DEF Matches, r, h

LEMMA MatchesSelf ==
  ASSUME NEW s, IsSequence(s)
  PROVE  Matches(s, s)
BY DEF Matches

LEMMA MatchesAligned ==
  ASSUME NEW row, NEW header, Matches(row, header)
  PROVE  Aligned(row, header)
BY DEF Matches, Aligned, IsSequence

\* The values of quotas are printed in the order of their columns.
LEMMA QuotaValuesMatch ==
  ASSUME NEW known
  PROVE  Matches(Known(QuotaValues, known), QuotaColumns)
<1> DEFINE a == <<"CpuLimit", "CpuRequest", "MemoryLimit", "MemoryRequest", "CurrentSize">>
           b == <<"NamespaceCpuLimit", "NamespaceCpuRequest", "NamespaceMemoryLimit",
                  "NamespaceMemoryRequest", "NamespacePodsLimit">>
           v == QuotaValues
           c == QuotaColumns
<1>1. v = a \o b
  BY DEF QuotaValues
<1>2. /\ IsSequence(a) /\ Len(a) = 5
      /\ a[1] = "CpuLimit" /\ a[2] = "CpuRequest" /\ a[3] = "MemoryLimit" /\ a[4] = "MemoryRequest"
      /\ a[5] = "CurrentSize"
  BY DEF IsSequence
<1>3. /\ IsSequence(b) /\ Len(b) = 5
      /\ b[1] = "NamespaceCpuLimit" /\ b[2] = "NamespaceCpuRequest" /\ b[3] = "NamespaceMemoryLimit"
      /\ b[4] = "NamespaceMemoryRequest" /\ b[5] = "NamespacePodsLimit"
  BY DEF IsSequence
<1>4. /\ IsSequence(c) /\ Len(c) = 10
      /\ c[1] = "CpuLimit" /\ c[2] = "CpuRequest" /\ c[3] = "MemoryLimit" /\ c[4] = "MemoryRequest"
      /\ c[5] = "CurrentSize" /\ c[6] = "NamespaceCpuLimit" /\ c[7] = "NamespaceCpuRequest"
      /\ c[8] = "NamespaceMemoryLimit" /\ c[9] = "NamespaceMemoryRequest" /\ c[10] = "NamespacePodsLimit"
  BY DEF QuotaColumns, IsSequence
<1> HIDE DEF a, b, v, c
<1>5. IsJoin(v, a, b)
  BY <1>1, <1>2, <1>3, JoinedAt
<1>6. /\ IsSequence(v) /\ Len(v) = 5 + 5
      /\ \A i \in 1 .. 5 : v[i] = a[i]
      /\ \A i \in 1 .. 5 : v[5 + i] = b[i]
  BY <1>2, <1>3, <1>5 DEF IsJoin
<1>7. \A i \in 1 .. 5 : v[i] = c[i]
  <2>1. \A i \in 1 .. 5 : i = 1 \/ i = 2 \/ i = 3 \/ i = 4 \/ i = 5
    OBVIOUS
  <2> QED BY ONLY <1>2, <1>4, <1>6, <2>1
<1>8. \A i \in 1 .. 5 : v[5 + i] = c[5 + i]
  <2>1. \A i \in 1 .. 5 : i = 1 \/ i = 2 \/ i = 3 \/ i = 4 \/ i = 5
    OBVIOUS
  <2>2. 5 + 1 = 6 /\ 5 + 2 = 7 /\ 5 + 3 = 8 /\ 5 + 4 = 9 /\ 5 + 5 = 10
    OBVIOUS
  <2>3. \A i \in 1 .. 5 : b[i] = c[5 + i]
    BY ONLY <1>3, <1>4, <2>1, <2>2
  <2> QED BY ONLY <1>6, <2>3
<1>9. \A i \in 1 .. 10 : v[i] = c[i]
  <2>1. ASSUME NEW i \in 6 .. 10 PROVE v[i] = c[i]
    <3> DEFINE j == i - 5
    <3>1. j \in 1 .. 5 /\ 5 + j = i
      OBVIOUS
    <3> HIDE DEF j
    <3> QED BY <1>8, <3>1
  <2> QED BY <1>7, <2>1
<1>10. Len(v) = 10
  BY <1>6
<1>11. /\ IsSequence(Known(v, known)) /\ Len(Known(v, known)) = 10
       /\ \A i \in 1 .. 10 : Known(v, known)[i] \in {"", v[i]}
  BY <1>6, <1>10, KnownCells
<1> QED BY <1>4, <1>9, <1>11 DEF Matches, v, c

LEMMA QuotaRowsAligned ==
  ASSUME NEW known
  PROVE  /\ Aligned(CrqAttributeRow(known), CrqAttributeHeader)
         /\ Aligned(RqAttributeRow(known), RqAttributeHeader)
<1> DEFINE a == <<"ClusterName", "CrqName", "VirtualTechnology",
                  "VirtualDomain", "VirtualDatacenter", "VirtualCluster", "SelectorType",
                  "SelectorKey", "SelectorValue", "CreateTime", "NamespaceLabels",
                  "ResourceMetadata">>
           b == <<"Namespaces">>
           r == <<"ClusterName", "Namespace", "RqName", "VirtualTechnology", "VirtualDomain",
                  "VirtualDatacenter", "CreateTime", "ResourceMetadata">>
           vs == Known(QuotaValues, known)
<1>1. /\ CrqAttributeRow(known) = (a \o vs) \o b /\ CrqAttributeHeader = (a \o QuotaColumns) \o b
      /\ RqAttributeRow(known) = r \o vs /\ RqAttributeHeader = r \o QuotaColumns
  BY DEF CrqAttributeRow, CrqAttributeHeader, RqAttributeRow, RqAttributeHeader
<1>2. IsSequence(a) /\ IsSequence(b) /\ IsSequence(r)
  BY DEF IsSequence
<1> HIDE DEF a, b, r, vs
<1>3. Matches(a, a) /\ Matches(b, b) /\ Matches(r, r) /\ Matches(vs, QuotaColumns)
  BY <1>2, MatchesSelf, QuotaValuesMatch DEF vs
<1>4. Matches(a \o vs, a \o QuotaColumns) /\ Matches(r \o vs, r \o QuotaColumns)
  BY <1>3, MatchesJoin
<1>5. Matches((a \o vs) \o b, (a \o QuotaColumns) \o b)
  BY <1>3, <1>4, MatchesJoin
<1> QED BY <1>1, <1>4, <1>5, MatchesAligned

\* All rows of a file.
LEMMA RowsAligned ==
  ASSUME NEW part, NEW kind, NEW cl, NEW e \in DOMAIN FileRows(part, kind, cl)
  PROVE  Aligned(FileRows(part, kind, cl)[e], Header(part, kind))
<1>1. CASE part = "node"
  BY <1>1, NodeConfigRowAligned, NodeRowAligned DEF FileRows, Header
<1>2. CASE part = "cluster"
  BY <1>2, NamesAligned, ClusterRowAligned DEF FileRows, Header
<1>3. CASE part = "crq"
  BY <1>3, NamesAligned, QuotaRowsAligned DEF FileRows, Header
<1>4. CASE part \notin {"node", "cluster", "crq"}
  BY <1>4, NamesAligned, QuotaRowsAligned DEF FileRows, Header
<1> QED BY <1>1, <1>2, <1>3, <1>4

FilesAligned == \A id \in DOMAIN files : \A e \in DOMAIN files[id].rows : Aligned(files[id].rows[e], files[id].header)

LEMMA FilesSteps ==
  ASSUME FilesAligned, [Next]_vars
  PROVE  FilesAligned'
<1>1. ASSUME UNCHANGED files PROVE FilesAligned'
  BY <1>1 DEF FilesAligned
<1>2. ASSUME NEW c \in Cluster, Write(c) PROVE FilesAligned'
  <2> DEFINE file == Current.part \o "_" \o Current.arg
             header == Header(Current.part, Current.arg)
             rows == FileRows(Current.part, Current.arg, data[c])
  <2>1. WriteFile(<<c, file>>, file \notin data[c].unwritable, header, rows)
    BY ZenonT(30), <1>2 DEF Write
  <2>2. \A e \in DOMAIN rows : Aligned(rows[e], header)
    BY RowsAligned
  <2> HIDE DEF rows, header, file
  <2>3. CASE file \in data[c].unwritable
    BY <1>1, <2>1, <2>3 DEF WriteFile
  <2>4. CASE file \notin data[c].unwritable
    <3>1. PICK kept \in IF <<c, file>> \in interrupted THEN SUBSET DOMAIN rows ELSE {DOMAIN rows} :
            files' = [f \in DOMAIN files \cup {<<c, file>>} |->
                        IF f = <<c, file>> THEN [header |-> header, rows |-> [e \in kept |-> rows[e]]]
                        ELSE files[f]]
      BY <2>1, <2>4 DEF WriteFile
    <3>2. kept \subseteq DOMAIN rows
      BY <3>1
    <3> QED BY <2>2, <3>1, <3>2 DEF FilesAligned
  <2> QED BY <2>3, <2>4
<1>3. ASSUME NEW c \in Cluster, Serve(c) PROVE FilesAligned'
  <2>1. UNCHANGED files
    BY ZenonT(30), <1>3 DEF Serve
  <2> QED BY <1>1, <2>1
<1>4. ASSUME Ask \/ LogVersions \/ ResetWriters \/ Call \/ Leave \/ UNCHANGED vars PROVE FilesAligned'
  <2>1. UNCHANGED files
    BY <1>4 DEF Ask, LogVersions, ResetWriters, Call, Leave, vars
  <2> QED BY <1>1, <2>1
<1> QED BY <1>2, <1>3, <1>4 DEF Next

-----------------------------------------------------------------------------
(* The inductive invariant *)

InventoryInv ==
  /\ StateOK
  /\ CountsKept
  /\ RecordsKept
  /\ CallsMade
  /\ FilesAligned

\* Nothing is known of a new cluster.
LEMMA NewKnown ==
  ASSUME NEW unwritable
  PROVE  ClusterOK(NewCluster(unwritable)) /\ Listed(NewCluster(unwritable).versions, {})
<1> DEFINE cl == NewCluster(unwritable)
           tv == NewTypedVersions
<1>1. /\ DOMAIN cl = {"versions", "exporters", "nodes", "roles", "unwritable", "open", "rows",
                      "totals", "crqs", "rqs"}
      /\ cl.open = {} /\ cl.totals = <<>> /\ cl.nodes = <<>> /\ cl.crqs = <<>>
      /\ cl.versions = NewClusterVersions
  BY DEF NewCluster
<1>2. DOMAIN <<>> = {}
  OBVIOUS
<1> HIDE DEF cl
<1>3. ClusterOK(cl)
  BY <1>1, <1>2 DEF ClusterOK
<1>4. DOMAIN tv = {"versions", "byName", "sorted"} /\ tv.sorted = FALSE /\ tv.versions = <<>>
  BY DEF NewTypedVersions
<1>5. /\ DOMAIN NewClusterVersions = {"apiServers", "nodes"}
      /\ NewClusterVersions.apiServers = tv /\ NewClusterVersions.nodes = tv
  BY DEF NewClusterVersions
<1> HIDE DEF tv
<1>6. IsSequence(<<>>) /\ Len(<<>>) = 0 /\ 1 .. 0 = {}
  BY DEF IsSequence
<1>7. ASSUME NEW jobs PROVE Lists(tv, Counted(jobs, {}))
  <2>1. Counted(jobs, {}) = {}
    BY DEF Counted
  <2> QED BY <1>4, <1>6, <2>1 DEF Lists
<1> QED BY <1>1, <1>3, <1>5, <1>7 DEF Listed, cl

LEMMA InventoryInit ==
  ASSUME Init
  PROVE  InventoryInv
<1>1. /\ answers \in Answers /\ position = 1 /\ pending = {} /\ started = FALSE
      /\ indicators = [m \in Metrics |-> 0] /\ calls = {} /\ files = <<>>
  BY DEF Init, Metrics, Generic
<1>2. PICK f \in Failures :
        data = [c \in Cluster |-> NewCluster({u[2] : u \in {u \in f.unwritable : u[1] = c}})]
  BY DEF Init
<1>3. /\ DOMAIN data = Cluster
      /\ \A c \in Cluster : ClusterOK(data[c]) /\ Listed(data[c].versions, {})
  BY <1>2, NewKnown
<1>4. ASSUME NEW i \in 1 .. 65, NEW c PROVE ~Passed(i, c)
  BY <1>1 DEF Passed
<1>5. Control
  <2>1. position \in 1 .. 66
    BY <1>1
  <2> QED BY <1>1, <2>1 DEF Control
<1>6. StateOK
  <2>1. DataWellFormed
    BY <1>1, <1>3 DEF DataWellFormed
  <2>2. VersionsKnown
    BY <1>1, <1>3, <1>4 DEF VersionsKnown
  <2> QED BY <1>5, <2>1, <2>2 DEF StateOK
<1>7. CountsKept
  <2>1. ASSUME NEW i \in CountingStages PROVE indicators[MetricAt(i)] = Cardinality(Answered(i))
    <3>1. i \in 1 .. 65 /\ MetricAt(i) \in Metrics
      BY CountingOnce
    <3>2. Answered(i) = {}
      BY <1>4, <3>1 DEF Answered
    <3> QED BY <1>1, <3>1, <3>2, FS_EmptySet
  <2> QED BY <1>1, <2>1 DEF CountsKept
<1>8. RecordsKept
  <2>1. ASSUME NEW i \in LegacyNodeStages \cup LegacyTotalStages, NEW c PROVE ~Replaced(i, c)
    BY <1>4 DEF Replaced, LegacyNodeStages, LegacyTotalStages
  <2> QED BY <1>4, <2>1 DEF RecordsKept
<1>9. CallsMade
  BY <1>1 DEF CallsMade
<1>10. FilesAligned
  BY <1>1 DEF FilesAligned
<1> QED BY <1>6, <1>7, <1>8, <1>9, <1>10 DEF InventoryInv

LEMMA InventorySteps ==
  ASSUME InventoryInv, [Next]_vars
  PROVE  InventoryInv'
<1>1. StateOK /\ CountsKept /\ RecordsKept /\ CallsMade /\ FilesAligned
  BY DEF InventoryInv
<1>2. StateOK'
  <2>1. Control'
    BY <1>1, StepsTaken DEF StateOK, StepTaken
  <2>2. DataWellFormed' /\ VersionsKnown'
    BY <1>1, DataSteps DEF StateOK
  <2> QED BY <2>1, <2>2 DEF StateOK
<1> QED BY <1>1, <1>2, CountsSteps, RecordsSteps, CallsSteps, FilesSteps DEF InventoryInv

\* What is known stays what the stages passed have told: the turns of the stages, the
\* counts, the records, the calls and the files, for any clusters and any answers.
THEOREM InventoryInvariant == Spec => []InventoryInv
<1>1. Init => InventoryInv
  BY InventoryInit
<1>2. InventoryInv /\ [Next]_vars => InventoryInv'
  BY InventorySteps
<1> QED BY <1>1, <1>2, PTL DEF Spec

\* For any number of clusters and whatever they answer: counts are counts of clusters,
\* what is known of a cluster has the columns of its files, open files have been begun,
\* and every row has the columns of the header it is written under (output.go of nodes,
\* cluster.go, crq.go, rq.go).
THEOREM InventoryTyped == Spec => []TypeOK
<1>1. ASSUME InventoryInv PROVE TypeOK
  <2>1. StateOK /\ CountsKept /\ FilesAligned
    BY <1>1 DEF InventoryInv
  <2>2. position \in 1 .. Len(Stages) + 1
    <3>1. position \in 1 .. 66 /\ Len(Stages) = 65
      BY <2>1, StagesSuit DEF StateOK, Control
    <3> QED BY <3>1
  <2>3. ASSUME NEW m \in DOMAIN indicators PROVE indicators[m] \in 0 .. Cardinality(Cluster)
    <3>1. m \in Metrics
      BY <2>1 DEF CountsKept
    <3>2. CASE \E i \in CountingStages : m = MetricAt(i)
      BY <2>1, <3>2, AnsweredFinite DEF CountsKept
    <3>3. CASE \A i \in CountingStages : m # MetricAt(i)
      <4>1. indicators[m] = 0
        BY <2>1, <3>1, <3>3 DEF CountsKept
      <4>2. Cardinality(Cluster) \in Nat
        BY InventoryAssumption, FS_CardinalityType
      <4> QED BY <4>1, <4>2
    <3> QED BY <3>2, <3>3
  <2>4. ASSUME NEW c \in Cluster
        PROVE  /\ data[c].open \subseteq DOMAIN data[c].rows
               /\ DOMAIN data[c].totals \subseteq TotalColumns
               /\ \A n \in DOMAIN data[c].nodes : DOMAIN data[c].nodes[n].values \subseteq NodeColumns
               /\ \A q \in DOMAIN data[c].crqs : DOMAIN data[c].crqs[q].values \subseteq QuotaColumnSet
    <3>1. ClusterOK(data[c])
      BY <2>1 DEF StateOK, DataWellFormed
    <3> QED BY <3>1 DEF ClusterOK, NodeOK, QuotaOK
  <2> QED BY <2>1, <2>2, <2>3, <2>4 DEF TypeOK, TotalColumns, NodeColumns, QuotaColumnSet, FilesAligned
<1> QED BY <1>1, InventoryInvariant, PTL

\* Whatever versions the API servers and nodes of however many clusters report, and in
\* whatever order: the version told of a cluster is the lowest of its API servers, or
\* else the highest of its nodes, and a minimum version is one of all its nodes
\* (kubernetes.go:112).
THEOREM VersionsTold == Spec => []VersionsExtremal
<1>1. ASSUME InventoryInv, position > Len(VersionStages), NEW c \in Cluster
      PROVE  LET apiServers == Reported(c, ApiServerJobs)
                 ofNodes == Reported(c, NodeJobs)
                 version == GetClusterVersion(data[c].versions)
             IN /\ \A v \in apiServers : Compare(version, v) <= 0
                /\ apiServers = {} => \A v \in ofNodes : Compare(version, v) >= 0
                /\ \A m \in 20 .. 30 :
                     HasMinimumVersion(data[c].versions, 1, m)
                       <=> ofNodes # {} /\ \A v \in ofNodes : Compare([major |-> 1, minor |-> m], v) <= 0
  <2> DEFINE S == AllSeries(c, "buildInfo")
  <2>1. position > 2
    <3>1. Len(VersionStages) = 2
      BY DEF VersionStages
    <3> QED BY <1>1, <3>1
  <2>2. ExtremesOf(data[c].versions, S) /\ Versioned(S)
    BY <1>1, <2>1, AnswersGiven DEF InventoryInv, StateOK, DataWellFormed, VersionsKnown
  <2>3. ASSUME NEW jobs PROVE Reported(c, jobs) = {[major |-> s.major, minor |-> s.minor] : s \in Counted(jobs, S)}
    BY DEF Reported, Counted
  <2> HIDE DEF S
  <2> QED BY <2>2, <2>3, ExtremesTold
<1>2. InventoryInv => VersionsExtremal
  BY <1>1 DEF VersionsExtremal
<1> QED BY <1>2, InventoryInvariant, PTL

\* For any number of clusters, whatever forms of the queries and node exporters each
\* has, and in whatever order they answer: in the end each has the values of the legacy
\* answers it gave for want of generic ones recorded, and its time series asked for in
\* the form it answers and under the wrapper that fits its exporter (node.go:84 to 146,
\* cluster.go:172 to 183).
THEOREM QueriesFit == Spec => []QueriesFitClusters
<1>1. ASSUME InventoryInv, Done PROVE QueriesFitClusters
  <2>1. position > 52 /\ position = 66 /\ StateOK /\ RecordsKept /\ CallsMade
    <3>1. position \in 1 .. 66 /\ position > 65
      BY <1>1, StagesSuit DEF InventoryInv, StateOK, Control, Done
    <3> QED BY <1>1, <3>1 DEF InventoryInv
  <2>2. ASSUME NEW i \in 1 .. 52, NEW c PROVE Passed(i, c)
    BY <2>1 DEF Passed
  <2>3. ASSUME NEW c \in Cluster, NEW q \in DOMAIN LegacyOf, AnswerTo(c, q) = <<>>, NEW m \in LegacyOf[q]
        PROVE  \A s \in AllSeries(c, m) : \A n \in getNode(data[c], s, "node") : \A e \in NodeEffectsOf(m, s) :
                 e.attribute \in DOMAIN data[c].nodes[n].values
    <3>1. PICK i \in LegacyNodeStages : LegacyAt(i, "node", "metric", m, q)
      BY LegacyStages
    <3>2. /\ i \in 1 .. 52 /\ Stages[i].query = m
          /\ QueryOf(Stages[i].part, Stages[i].given[2]) = q
      BY <3>1, LegacyStages DEF LegacyAt, QueryOf
    <3>3. Replaced(i, c)
      BY <2>2, <2>3, <3>2 DEF Replaced
    <3>4. NodeRecorded(i, c)
      BY <2>1, <3>3 DEF RecordsKept
    <3> QED BY <3>2, <3>4 DEF NodeRecorded
  <2>4. ASSUME NEW c \in Cluster, NEW q \in {"limits", "requests"}, AnswerTo(c, ClusterQuery(q)) = <<>>,
               NEW m \in LegacyOf[q], AnswerTo(c, ClusterQuery(m)) # <<>>
        PROVE  \A e \in ClusterEffects : e.metric = m => e.attribute \in DOMAIN data[c].totals
    <3>1. PICK i \in LegacyTotalStages : LegacyAt(i, "cluster", "total", m, q)
      BY LegacyStages
    <3>2. /\ i \in 1 .. 52 /\ Stages[i].query = m /\ QueryAt(i) = ClusterQuery(m)
          /\ QueryOf(Stages[i].part, Stages[i].given[2]) = ClusterQuery(q)
      BY <3>1, LegacyStages DEF LegacyAt, QueryOf, QueryAt
    <3>3. Replaced(i, c)
      BY <2>2, <2>4, <3>2 DEF Replaced
    <3>4. TotalRecorded(i, c)
      BY <2>1, <3>3 DEF RecordsKept
    <3> QED BY <2>4, <3>2, <3>4 DEF TotalRecorded
  <2>5. ASSUME NEW c \in Cluster
        PROVE  /\ CallsOf("node", reservationMetrics(AnswerTo(c, "requests") # <<>>),
                          AnswerTo(c, "requests") # <<>>) \subseteq calls
               /\ CallsOf("cluster", conditionalMetrics(AnswerTo(c, ClusterQuery("requests")) # <<>>),
                          AnswerTo(c, ClusterQuery("requests")) # <<>>) \subseteq calls
    BY <2>1 DEF CallsMade, HasAnswer
  <2>6. ASSUME NEW c \in Cluster,
               NEW s \in {AnswerTo(c, "nodeExporter")[i] : i \in {Len(AnswerTo(c, "nodeExporter"))} \ {0}},
               NEW w \in NodeIndicator(s)
        PROVE  CallsOf("node", nodeMetrics, w) \cup CallsOf("cluster", clusterMetrics, w) \subseteq calls
    <3> DEFINE answer == AnswerTo(c, "nodeExporter")
    <3>1. s = answer[Len(answer)] /\ Len(answer) # 0
      OBVIOUS
    <3> HIDE DEF answer
    <3>2. answer # <<>>
      BY <3>1
    <3>3. w \in NodeExporter(c)
      BY <3>1, <3>2 DEF NodeExporter, answer
    <3> QED BY <2>1, <3>3 DEF CallsMade
  <2> QED BY <2>3, <2>4, <2>5, <2>6 DEF QueriesFitClusters
<1>2. InventoryInv => QueriesFitClusters
  BY <1>1 DEF QueriesFitClusters
<1> QED BY <1>2, InventoryInvariant, PTL
=============================================================================
