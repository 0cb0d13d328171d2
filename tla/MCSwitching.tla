---------------------------- MODULE MCSwitching ----------------------------
(* Two windows of one operation; the policies with their modes, a joined and *)
(* a split gap, immediate and priced frame writes, and cards whose output    *)
(* links are unlimited, slow and shared, or charge a setup.                  *)
EXTENDS Switching

Required == {"QC", "WBD", "WSD", "SBD", "WDO", "DD", "DO", "OC", "CQ"}
Card(channelOf(_), rate, overhead) ==
  [edge |-> [p \in Required |-> L!Edge(channelOf(p), 3, FALSE, overhead)],
   channel |-> [c \in {channelOf(p) : p \in Required} |-> L!Channel(1, rate)]]
Own(p) == p
Outputs(p) == IF p \in {"WDO", "DO", "WSD"} THEN "out" ELSE p
Unlimited == Card(Own, None, 0)
Slow == Card(Outputs, <<1, 2>>, 0)
Setup == L!WithTransferOverhead(L!WithEdge(Card(Own, None, 0), "CSB", 2, None),
                                {"WSD", "DO"}, 1)
\* One channel for the outputs, whose edges charge the same setup.
SharedSetup == L!WithTransferOverhead(Card(Outputs, None, 0), {"WDO", "DO", "WSD"}, 2)

Run(mode_, policy, keep, split, commit, card) ==
  [mode |-> mode_, policy |-> policy, keep |-> keep, split |-> split,
   commit |-> commit, card |-> card,
   weights |-> IF split /\ keep = "online" THEN {0, 3} ELSE {0, 3, None}]
ConfigsDef ==
  {Run("serial", "baseline", "fixed", FALSE, 1, Slow),
   Run("serial", "strong only", "fixed", FALSE, 0, Slow),
   Run("serial", "switching", "online", FALSE, 1, Setup),
   Run("serial", "switching", "online", TRUE, 0, Slow),
   Run("serial", "switching", "register", TRUE, 0, Unlimited),
   Run("parallel", "switching", "fixed", FALSE, 1, Slow),
   Run("deferred", "switching", "fixed", FALSE, 1, Slow),
   Run("parallel", "switching", "online", FALSE, 0, Slow)}

\* The three paths agree on the setup, so the card is accepted.
SharedSetupConfigs == {Run("serial", "switching", "fixed", FALSE, 0, SharedSetup)}
=============================================================================
