----------------------------- MODULE Switching -----------------------------
(***************************************************************************)
(* A window's weak outcome and what becomes of it: the join of a split gap *)
(* (decoder_manager.py), the escalation policies and the online threshold  *)
(* (weak_strong_switching.py), the commit of weak and strong results over  *)
(* their links (window_manager.py, links.py) and the Pauli frame           *)
(* (pauli_frame.py).  It drives the ledger of module StrongRequests.       *)
(*                                                                         *)
(* Decodes end at any tick; links and frame writes take their time and end *)
(* in the order of an event list.  Gaps, weights and thresholds are whole  *)
(* numbers, rates are multiples of 1/RateScale.  One logical observable.   *)
(***************************************************************************)
EXTENDS StrongRequests

CONSTANTS
  Configs,       \* the runs checked: [mode, policy, keep, split, commit, card,
                 \* weights]; weights are those of a decode, None a missing one
  FixedThreshold,  \* also the default of the register
  NewThreshold,    \* what the register may be set to while the run goes on
  InitialThreshold, InitialTarget,
  MinTarget, MaxTarget, AdjustFactor,
  RateScale,     \* rates are multiples of 1/RateScale; one step of the
                 \* threshold is RateScale
  RelaxQuota     \* clean audits that earn a relax

\* What the loader of the online card accepts (_online_threshold_card in
\* experiments/experiment_config.py).
ASSUME SwitchingAssumption ==
  /\ MinTarget \in Nat \ {0} /\ MaxTarget \in Nat
  /\ InitialTarget \in MinTarget .. MaxTarget
  /\ AdjustFactor \in Nat /\ AdjustFactor > 1

L == INSTANCE Links

VARIABLES
  cfg,        \* the configuration of this run
  now, events,\* the clock; what is scheduled, in the order of scheduling
  net,        \* the link fabric
  half,       \* window -> its weak decode, its gap sibling, its strong result
  cal,        \* OnlineGapCalibrator with its controller, tracker and lane
  register,   \* ThresholdRegister: the value set for the code of the windows
  frame,      \* the Pauli frame
  wm          \* the window manager: commits, predictions, selections

outcomeVars == <<half, cal, register>>
commitVars == <<now, events, net, frame, wm>>
switchVars == <<vars, cfg, outcomeVars, commitVars>>

\* Switching.__init__: an online threshold is serial, it and a register are
\* two owners of one threshold (c.keep is one), and no mode is two.
PolicyOk(c) ==
  /\ c.policy = "switching" \/ (c.keep = "fixed" /\ c.mode = "serial")
  /\ c.keep = "online" => c.mode = "serial"
ConfigOk(c) == PolicyOk(c) /\ L!CardOk(c.card)

Idle == [primary |-> "idle", sibling |-> "none", weight |-> None, other |-> None,
         strong |-> None]
\* The weak prediction of a window; a strong one is WeakBit or revises it.
WeakBit == 1

SwitchInit ==
  /\ Init
  /\ cfg \in {c \in Configs : ConfigOk(c)}
  /\ mode = cfg.mode
  /\ now = 0 /\ events = <<>>
  /\ net = L!Resolve(cfg.card)
  /\ half = [w \in Windows |-> Idle]
  /\ cal = [threshold |-> InitialThreshold, target |-> InitialTarget,
            windows |-> 0, escalated |-> 0, kept |-> 0,
            audited |-> 0, bad |-> 0, streak |-> 0, moves |-> 0,
            pending |-> {}, labelled |-> {}]
  /\ register = None
  /\ frame = [accepted |-> {}, pending |-> {}, drops |-> 0,
              entry |-> [w \in Windows |-> None]]
  /\ wm = [committed |-> {}, waiting |-> {}, complete |-> FALSE,
           selected |-> [w \in Windows |-> None],
           prediction |-> [w \in Windows |-> None]]

-----------------------------------------------------------------------------
(* Thresholds *)

\* ThresholdRegister.get and set
Threshold == IF cfg.keep = "register" /\ register # None THEN register ELSE FixedThreshold
SetThreshold ==
  /\ cfg.keep = "register" /\ register # NewThreshold
  /\ register' = NewThreshold
  /\ UNCHANGED <<vars, cfg, half, cal, commitVars>>

NonNegative(n) == IF n < 0 THEN 0 ELSE n
Escalates(c, gap) == gap < c.threshold

\* EscalationRateTracker.observe and the kept windows of the audit lane: one
\* window's gap moves the threshold by the target less the outcome.
Observe(c, gap) ==
  LET out == IF Escalates(c, gap) THEN 1 ELSE 0
  IN [c EXCEPT !.windows = @ + 1,
               !.escalated = @ + out,
               !.kept = @ + (1 - out),
               !.threshold = NonNegative(@ + c.target - RateScale * out)]

Clamp(t) == IF t < MinTarget THEN MinTarget ELSE IF t > MaxTarget THEN MaxTarget ELSE t

\* absorb_strong_result and record_audit_outcome: a bad audit raises the
\* target at once, a quota of clean ones relaxes it.
MutAbsorb(c, w, bad) == [c EXCEPT !.audited = @ + 1, !.labelled = @ \cup {w}]
Absorb(c, w, bad) ==
  LET relax == c.streak + 1 >= RelaxQuota
      labelled == [c EXCEPT !.pending = @ \ {w}, !.labelled = @ \cup {w},
                            !.audited = @ + 1]
  IN IF w \notin c.pending THEN c
     ELSE IF bad
     THEN [labelled EXCEPT !.bad = @ + 1, !.streak = 0, !.moves = @ + 1,
                           !.target = Clamp(@ * AdjustFactor)]
     ELSE IF relax
     THEN [labelled EXCEPT !.streak = 0, !.moves = @ + 1,
                           !.target = Clamp(@ \div AdjustFactor)]
     ELSE [labelled EXCEPT !.streak = @ + 1]

-----------------------------------------------------------------------------
(* Events, links and the Pauli frame *)

At(tick, kind, w) == [at |-> tick, kind |-> kind, window |-> w]
IsNext(i) ==
  \A k \in DOMAIN events : \/ events[i].at < events[k].at
                           \/ events[i].at = events[k].at /\ i <= k

\* A window's transfers carry its request.
WindowAttribution(w) ==
  [operation |-> "op", window |-> w, rounds |-> TRUE,
   relation |-> [kind |-> "request", operation |-> "op", window |-> w]]
Send(fabric, path, w) == L!Reserve(fabric, path, None, now, WindowAttribution(w))

\* The transfers of the windows of S over one path, one after the other, each
\* with the event its delivery is, added to the events of rest.
SendAll(path, kind, S, rest) ==
  LET step[T \in SUBSET S] ==
        IF T = {} THEN [net |-> net, events |-> rest]
        ELSE LET w == CHOOSE v \in T : TRUE
                 before == step[T \ {w}]
                 sent == Send(before.net, path, w)
             IN [net |-> sent.net,
                 events |-> Append(before.events, At(now + sent.delay, kind, w))]
  IN step[S]

\* finish_workload_if_ready
Complete(m) == m.committed = Windows /\ m.waiting = {}
Checked(m) == [m EXCEPT !.complete = @ \/ Complete(m)]

\* _commit_decode_done of a final weak result, _finish_strong_commit
CommitWeak(m, w, bit) ==
  Checked([m EXCEPT !.committed = @ \cup {w}, !.selected[w] = "weak",
                    !.prediction[w] = bit])
CommitProvisional(m, w, bit) ==
  [m EXCEPT !.committed = @ \cup {w}, !.waiting = @ \cup {w},
            !.prediction[w] = bit]
CommitStrong(m, w, bit) ==
  Checked([m EXCEPT !.waiting = @ \ {w}, !.prediction[w] = bit])
OnCommitted(m, w, tier, bit) ==
  IF tier = "weak" THEN CommitWeak(m, w, bit) ELSE CommitStrong(m, w, bit)

\* commit_weak_correction: a write is accepted once a window, and takes
\* cfg.commit ticks; a second one is dropped and calls nobody back.
Sink(m, rest, w, tier, bit) ==
  LET entry == [tier |-> tier, bit |-> bit]
      accepted == [frame EXCEPT !.accepted = @ \cup {w}, !.entry[w] = entry]
  IN IF w \in frame.accepted
     THEN /\ frame' = [frame EXCEPT !.drops = @ + 1]
          /\ wm' = m /\ events' = rest
     ELSE IF cfg.commit = 0
     THEN /\ frame' = accepted
          /\ wm' = OnCommitted(m, w, tier, bit) /\ events' = rest
     ELSE /\ frame' = [accepted EXCEPT !.pending = @ \cup {w}]
          /\ wm' = m
          /\ events' = Append(rest, At(now + cfg.commit, "install", w))

\* frame_for: the parity of the installed corrections.
Installed == frame.accepted \ frame.pending
Parity(f, S) == Cardinality({w \in S : f[w] = 1}) % 2
FrameFor == Parity([w \in Windows |-> IF w \in Installed THEN frame.entry[w].bit ELSE 0],
                   Windows)

-----------------------------------------------------------------------------
(* The weak decode and its sibling *)

\* on_window_ready
Submit(w) ==
  /\ AdmitWeak(w)
  /\ half' = [half EXCEPT ![w].primary = "queued"]
  /\ UNCHANGED <<cfg, cal, register, commitVars>>

\* _start_flight of the primary: _spawn_gap_sibling opens the join.
Start(w) ==
  /\ half[w].primary = "queued"
  /\ half' = [half EXCEPT ![w].primary = "running",
                          ![w].sibling = IF cfg.split THEN "running" ELSE "none"]
  /\ UNCHANGED <<vars, cfg, cal, register, commitVars>>

\* _attach_joined_gap, and the gap of a decode that solves both classes.
Magnitude(n) == IF n < 0 THEN -n ELSE n
Gap(h) == IF ~cfg.split THEN h.weight
          ELSE IF h.weight = None \/ h.other = None THEN None
          ELSE Magnitude(h.weight - h.other)

\* _keep_weak_outcome with no audit.
Keeps(gap) ==
  CASE cfg.policy # "switching" -> TRUE
    [] gap = None -> FALSE
    [] cfg.keep = "online" -> ~Escalates(cal, gap)
    [] OTHER -> gap >= Threshold
MayAudit(gap) == cfg.keep = "online" /\ gap # None /\ Keeps(gap)

\* _conclude_weak with FINALIZE: the result leaves over the output link of the
\* primary tier (on_decode_done).
OutputPath == IF cfg.policy = "strong only" THEN "DO" ELSE "WDO"
Keep(w) ==
  LET sent == Send(net, OutputPath, w)
  IN /\ Finalize(w)
     /\ net' = sent.net
     /\ events' = Append(events, At(now + sent.delay, "weak result", w))
     /\ wm' = wm

\* _conclude_weak with AWAIT_STRONG: the selection leaves over WSD, the weak
\* result commits provisionally and does not enter the frame.
MutEscalate(w) ==
  LET sent == Send(net, "WSD", w)
  IN /\ AwaitStrong(w)
     /\ net' = sent.net
     /\ events' = events \o <<At(now + sent.delay, "select", w),
                              At(now + sent.delay, "weak result", w)>>
     /\ wm' = CommitProvisional(wm, w, WeakBit)
Escalate(w) ==
  LET sent == Send(net, "WSD", w)
  IN /\ AwaitStrong(w)
     /\ net' = sent.net
     /\ events' = Append(events, At(now + sent.delay, "select", w))
     /\ wm' = CommitProvisional(wm, w, WeakBit)

\* The decision runs once a window, when the outcome is complete: the
\* calibrator observes the gap, and a kept window may be audited, which
\* escalates it.
Decide(w, h) ==
  LET gap == Gap(h)
      observed == IF cfg.keep = "online" /\ gap # None THEN Observe(cal, gap) ELSE cal
  IN \/ Keeps(gap) /\ Keep(w) /\ cal' = observed
     \/ ~Keeps(gap) /\ Escalate(w) /\ cal' = observed
     \/ /\ MayAudit(gap) /\ Escalate(w)
        /\ cal' = [observed EXCEPT !.pending = @ \cup {w}]

\* The primary ends first and waits at the join, or it concludes the window.
PrimaryDone(w, weight) ==
  LET h == [half[w] EXCEPT !.primary = "done", !.weight = weight]
      waits == h.sibling = "running"
  IN /\ half[w].primary = "running"
     /\ half' = [half EXCEPT ![w] = h]
     /\ IF waits THEN UNCHANGED <<vars, cal, net, events, wm>> ELSE Decide(w, h)
     /\ UNCHANGED <<cfg, register, now, frame>>

\* _gap_sibling_done
MutSiblingDone(w, weight) ==
  /\ half[w].sibling = "running"
  /\ half' = [half EXCEPT ![w].sibling = "done", ![w].other = weight]
  /\ UNCHANGED <<vars, cfg, cal, register, commitVars>>
SiblingDone(w, weight) ==
  LET h == [half[w] EXCEPT !.sibling = "done", !.other = weight]
      held == h.primary = "done"
  IN /\ half[w].sibling = "running"
     /\ half' = [half EXCEPT ![w] = h]
     /\ IF held THEN Decide(w, h) ELSE UNCHANGED <<vars, cal, net, events, wm>>
     /\ UNCHANGED <<cfg, register, now, frame>>

-----------------------------------------------------------------------------
(* The strong decode *)

\* A deferred strong window is submitted when its far side is ready.
FarReady(w) == SubmitDeferred(w) /\ UNCHANGED <<cfg, outcomeVars, commitVars>>

\* A strong job that a selection message starts cannot end before it arrives.
StrongEnds(j) ==
  mode = "parallel" \/ Members(running, j) \cap waitSel = {}

\* _on_decode_done of a strong job; on_strong_decode_done sends what a
\* destination waits for over DO, and an audit is labelled.
StrongResult(j, bit) ==
  LET sent == SendAll("DO", "strong result", delivered' \ delivered, events)
  IN /\ StrongEnds(j)
     /\ StrongDone(j)
     /\ cal' = Absorb(cal, Destination(j), bit # WeakBit)
     /\ half' = [w \in Windows |->
                   IF running[w] = j THEN [half[w] EXCEPT !.strong = bit] ELSE half[w]]
     /\ net' = sent.net /\ events' = sent.events
     /\ UNCHANGED <<cfg, register, now, frame, wm>>

-----------------------------------------------------------------------------
(* Deliveries *)

Tick ==
  /\ events # <<>>
  /\ \A k \in DOMAIN events : events[k].at > now
  /\ now' = now + 1
  /\ UNCHANGED <<vars, cfg, outcomeVars, events, net, frame, wm>>

\* The earliest event, first scheduled first.
Due(i, kind) == events[i].at = now /\ events[i].kind = kind /\ IsNext(i)

\* _select_strong_result: a result held for the window leaves over DO.
Selected(i) ==
  LET w == events[i].window
      sent == SendAll("DO", "strong result", delivered' \ delivered, RemoveAt(events, i))
  IN /\ Due(i, "select")
     /\ Select(w)
     /\ net' = sent.net /\ events' = sent.events
     /\ UNCHANGED <<cfg, outcomeVars, now, frame, wm>>

\* _sink_weak_correction
WeakDelivered(i) ==
  /\ Due(i, "weak result")
  /\ Sink(wm, RemoveAt(events, i), events[i].window, "weak", WeakBit)
  /\ UNCHANGED <<vars, cfg, outcomeVars, now, net>>

\* _commit_strong_decode_done
StrongDelivered(i) ==
  LET w == events[i].window
  IN /\ Due(i, "strong result")
     /\ Sink([wm EXCEPT !.selected[w] = "strong"], RemoveAt(events, i),
             w, "strong", half[w].strong)
     /\ UNCHANGED <<vars, cfg, outcomeVars, now, net>>

\* _install_accepted_write
FrameWritten(i) ==
  LET w == events[i].window
  IN /\ Due(i, "install")
     /\ frame' = [frame EXCEPT !.pending = @ \ {w}]
     /\ wm' = OnCommitted(wm, w, frame.entry[w].tier, frame.entry[w].bit)
     /\ events' = RemoveAt(events, i)
     /\ UNCHANGED <<vars, cfg, outcomeVars, now, net>>

SwitchNext ==
  \/ \E w \in Windows : Submit(w) \/ Start(w) \/ FarReady(w)
  \/ \E w \in Windows, weight \in cfg.weights :
       PrimaryDone(w, weight) \/ SiblingDone(w, weight)
  \/ \E j \in Jobs, bit \in {0, 1} : StrongResult(j, bit)
  \/ SetThreshold
  \/ Tick
  \/ \E i \in DOMAIN events : \/ Selected(i) \/ WeakDelivered(i)
                             \/ StrongDelivered(i) \/ FrameWritten(i)

\* Submitted decodes end, far boundaries come and time passes: while a step is
\* possible the run goes on.
CanStep ==
  \/ events # <<>>
  \/ \E w \in Windows : \/ weak[w] = "none" \/ half[w].primary \in {"queued", "running"}
                       \/ half[w].sibling = "running" \/ w \in deferred
  \/ inService # {}
SwitchFairness == []<>~CanStep \/ []<><<SwitchNext>>_switchVars

SwitchSpec == SwitchInit /\ [][SwitchNext]_switchVars /\ SwitchFairness

-----------------------------------------------------------------------------
(* Properties *)

\* Every window's final correction enters the frame once, whichever tier gave
\* it and whatever was decided on the way: no write is dropped as a duplicate
\* (its caller would never be called back), a provisional weak result stays
\* out of the frame, and when the workload is complete the operation's result
\* is the frame's parity and every entry comes from the selected tier.
CorrectionsOnce ==
  /\ frame.drops = 0
  /\ frame.accepted \cap waitSel = {}
  /\ \A w \in frame.accepted : frame.entry[w].tier = "weak" <=> w \notin delivered
  /\ wm.complete =>
       /\ Installed = Windows
       /\ \A w \in Windows : wm.selected[w] = frame.entry[w].tier
       /\ FrameFor = Parity(wm.prediction, Windows)

\* The online threshold sees every window once: each observed window either
\* escalated or was kept, and a window picked for an audit is labelled exactly
\* once, by its own strong result, so that none is pending at the end.
AuditsAnswered ==
  /\ cal.windows = cal.escalated + cal.kept
  /\ cal.pending \cap cal.labelled = {}
  /\ cal.audited = Cardinality(cal.labelled)
  /\ \A w \in cal.pending : w \notin delivered /\ MayConsume(w)
  /\ cal.target \in MinTarget .. MaxTarget
  /\ wm.complete => cal.pending = {}

\* "Sends are in order of time" on a channel (Link, links.py:419-420), and a
\* card whose edges could break that is refused: "a channel's in-order send
\* guard cannot hold if edges sharing it disagree about the setup shift, so
\* refuse the mix" (LinkModelConfig.resolve, links.py:524-525).
SendsInOrder == ~net.refused

\* Transfers keep their order and their time: no send is refused, transfers on
\* a channel of finite bandwidth never overlap and none ends before its bits
\* are through, transfers of a path are delivered in the order they were asked
\* for, the counters of a channel are those of its paths, and the report gives
\* the delivery of a transfer that has no setup.
Delivery(t) == t.asked + t.r.total
Transfers(channel) ==
  SelectSeq(net.transfers, LAMBDA t : cfg.card.edge[t.path].channel = channel)
LinksInOrder ==
  /\ SendsInOrder
  /\ \A c \in DOMAIN cfg.card.channel :
       LET sent == Transfers(c)
       IN /\ L!ChannelReconciles(net, c)
          /\ cfg.card.channel[c].rate # None =>
               \A k \in 1 .. Len(sent) - 1 : sent[k].r.end <= sent[k + 1].r.start
  /\ \A i, k \in DOMAIN net.transfers :
       i < k /\ net.transfers[i].path = net.transfers[k].path
         => Delivery(net.transfers[i]) <= Delivery(net.transfers[k])
  /\ \A i \in DOMAIN net.transfers :
       LET t == net.transfers[i]
       IN cfg.card.edge[t.path].overhead = 0 => L!ReportedDelivery(t) = Delivery(t)

\* Every window that is submitted is decided and finally committed, whichever
\* half of its gap ends first and whichever of a selection and a result comes
\* first, and the run then says that the workload is complete.
EveryWindowFinal == <>(wm.complete /\ Installed = Windows)

=============================================================================
