------------------------------- MODULE Links -------------------------------
(***************************************************************************)
(* The reaction-path links, decsim/links/links.py: a card gives each path  *)
(* an edge on a channel, two paths may share a channel, and one reservation*)
(* queues, serializes and propagates a transfer.  Operators on the state of*)
(* one fabric; module Switching drives them in time.                       *)
(*                                                                         *)
(* A payload is a number of bits or None (not known).  A channel's rate is *)
(* the ticks one bit takes as a fraction <<numerator, denominator>>, or    *)
(* None when its bandwidth is unlimited.                                   *)
(***************************************************************************)
EXTENDS Integers, Sequences, FiniteSets, FiniteSetsExt

CONSTANTS None

\* Path -> what its transfers are attributed to, the relation they carry, and
\* whether a card must wire it.
PathRule ==
  LET rule(scope, relation, required) ==
        [scope |-> scope, relation |-> relation, required |-> required]
  IN [QC  |-> rule("round", "none", TRUE),
      CWB |-> rule("round", "none", FALSE),
      WBD |-> rule("round or window", "request when windowed", TRUE),
      WSD |-> rule("window", "request", TRUE),
      SBD |-> rule("window", "request", TRUE),
      WDO |-> rule("window", "request", TRUE),
      DD  |-> rule("window", "boundary", TRUE),
      DO  |-> rule("window", "request", TRUE),
      OC  |-> rule("operation", "none", TRUE),
      CQ  |-> rule("operation", "none", TRUE),
      CSB |-> rule("round", "none", FALSE)]

Paths == DOMAIN PathRule

-----------------------------------------------------------------------------
(* Cards *)

\* A whole number of bits or of channels, aggregate (channels = None) or per
\* channel.
Aggregate(amount, channels) == IF channels = None THEN amount ELSE amount * channels

\* One edge: the channel object it names, its default payload, whether the
\* run supplies the actual one, and the setup cost of a transfer.
Edge(channel, default, actual, overhead) ==
  [channel |-> channel, default |-> default, actual |-> actual, overhead |-> overhead]
Channel(latency, rate) == [latency |-> latency, rate |-> rate]

\* An edge needs a payload.
EdgeOk(edge) == edge.default # None \/ edge.actual

\* card.edge: path -> edge of the wired paths; card.channel: name -> channel.
\* Every required path is wired, and the edges of one channel agree on the
\* setup cost.
Wired(card) == DOMAIN card.edge
CardOk(card) ==
  /\ \A p \in Wired(card) : EdgeOk(card.edge[p])
  /\ {p \in Paths : PathRule[p].required} \subseteq Wired(card)
  /\ \A p, q \in Wired(card) :
       card.edge[p].channel = card.edge[q].channel
         => card.edge[p].overhead = card.edge[q].overhead

MemberPaths(card, channel) == {p \in Wired(card) : card.edge[p].channel = channel}

-----------------------------------------------------------------------------
(* One fabric *)

NoTraffic == [count |-> 0, bits |-> 0, unknown |-> 0,
              serialization |-> 0, propagation |-> 0, wait |-> 0]
PlusReservation(counters, r) ==
  [count |-> counters.count + 1,
   bits |-> counters.bits + (IF r.bits = None THEN 0 ELSE r.bits),
   unknown |-> counters.unknown + (IF r.bits = None THEN 1 ELSE 0),
   serialization |-> counters.serialization + r.serialization,
   propagation |-> counters.propagation + r.propagation,
   wait |-> counters.wait + r.wait]

FreshLink == [nextFree |-> 0, lastSend |-> 0, sequence |-> 0, counters |-> NoTraffic]

\* resolve: one Link per channel, one setup server and one counter per path.
Resolve(card) ==
  [card |-> card,
   link |-> [c \in DOMAIN card.channel |-> FreshLink],
   setupFree |-> [p \in Wired(card) |-> 0],
   semantic |-> [p \in Wired(card) |-> NoTraffic],
   transfers |-> <<>>,
   refused |-> FALSE]

\* The shape a path's attribution has, and the operation and window its
\* relation names.
HasRelation(rule, a) ==
  \/ rule.relation \in {"request", "boundary"}
  \/ rule.relation = "request when windowed" /\ a.window # None
ScopeOk(scope, a) ==
  CASE scope = "round" -> a.window = None /\ a.rounds
    [] scope = "round or window" -> a.rounds
    [] scope = "window" -> a.window # None /\ a.rounds
    [] scope = "operation" -> a.window = None /\ ~a.rounds
AttributionOk(path, a) ==
  LET rule == PathRule[path]
      kind == IF rule.relation = "boundary" THEN "boundary" ELSE "request"
  IN /\ ScopeOk(rule.scope, a)
     /\ IF HasRelation(rule, a)
        THEN /\ a.relation # None
             /\ a.relation.kind = kind
             /\ a.relation.operation = a.operation /\ a.relation.window = a.window
        ELSE a.relation = None

\* The bits a transfer is priced with: the actual payload (the edge must
\* declare one), else the default, else none.
PayloadOk(edge, bits) == bits # None => edge.actual
SelectPayload(edge, bits) == IF bits # None THEN bits ELSE edge.default

\* Serialization never ends before the exact transmission time.
Ceiling(n, d) == (n + d - 1) \div d
Serialization(rate, bits) == IF rate = None THEN 0 ELSE Ceiling(bits * rate[1], rate[2])

\* Link.reserve: one FIFO interval of a channel from tick now on.
MutLinkReserve(link, channel, bits, now) ==
  [bits |-> bits, send |-> now, start |-> now,
   wait |-> 0, serialization |-> Serialization(channel.rate, bits),
   propagation |-> channel.latency,
   end |-> now + Serialization(channel.rate, bits),
   sequence |-> link.sequence,
   total |-> Serialization(channel.rate, bits) + channel.latency]
LinkReserve(link, channel, bits, now) ==
  LET start == IF channel.rate = None THEN now ELSE Max({now, link.nextFree})
      serialization == Serialization(channel.rate, bits)
  IN [bits |-> bits, send |-> now, start |-> start,
      wait |-> start - now, serialization |-> serialization,
      propagation |-> channel.latency,
      end |-> start + serialization,
      sequence |-> link.sequence,
      total |-> (start - now) + serialization + channel.latency]

\* The link after a reservation.
LinkAfter(link, channel, r) ==
  [nextFree |-> IF channel.rate = None THEN link.nextFree ELSE r.end,
   lastSend |-> r.send,
   sequence |-> link.sequence + 1,
   counters |-> PlusReservation(link.counters, r)]

\* The setup of a transfer waits for the setups of its path before it.
SetupEnd(net, path, now) ==
  IF net.card.edge[path].overhead = 0 THEN now
  ELSE Max({now, net.setupFree[path]}) + net.card.edge[path].overhead

\* A reservation is refused when the path is not wired, the attribution or
\* the payload does not fit, a channel with finite bandwidth would carry an
\* unknown payload, or its sends would not be in the order of time.
Refused(net, path, bits, wire, a) ==
  \/ path \notin Wired(net.card)
  \/ ~AttributionOk(path, a)
  \/ ~PayloadOk(net.card.edge[path], bits)
  \/ LET edge == net.card.edge[path]
     IN \/ wire < net.link[edge.channel].lastSend
        \/ /\ net.card.channel[edge.channel].rate # None
           /\ SelectPayload(edge, bits) = None

\* LinkModel.reserve: [net, delay], the fabric with the transfer on record and
\* the ticks from now to its delivery.
Reserve(net, path, bits, now, a) ==
  LET edge == net.card.edge[path]
      channel == net.card.channel[edge.channel]
      wire == SetupEnd(net, path, now)
      r == LinkReserve(net.link[edge.channel], channel, SelectPayload(edge, bits), wire)
      total == r.total + (wire - now)
  IN IF Refused(net, path, bits, wire, a)
     THEN [net |-> [net EXCEPT !.refused = TRUE], delay |-> 0]
     ELSE [net |-> [net EXCEPT
                      !.link[edge.channel] = LinkAfter(@, channel, r),
                      !.setupFree[path] = IF edge.overhead = 0 THEN @ ELSE wire,
                      !.semantic[path] = PlusReservation(@, r),
                      !.transfers = Append(@, [path |-> path, window |-> a.window,
                                               asked |-> now,
                                               r |-> [r EXCEPT !.total = total]])],
           delay |-> total]

-----------------------------------------------------------------------------
(* Reports *)

\* The delivery tick the traffic report gives a transfer: the setup is in both
\* terms.
ReportedDelivery(t) == t.r.send + t.r.total

PlusCounters(a, b) == [k \in DOMAIN a |-> a[k] + b[k]]
SumCounters(net, paths) ==
  LET sum[rest \in SUBSET paths] ==
        IF rest = {} THEN NoTraffic
        ELSE LET p == CHOOSE q \in rest : TRUE
             IN PlusCounters(net.semantic[p], sum[rest \ {p}])
  IN sum[paths]

\* The report refuses counters of a channel that are not the sum of its paths'.
ChannelReconciles(net, channel) ==
  SumCounters(net, MemberPaths(net.card, channel)) = net.link[channel].counters

-----------------------------------------------------------------------------
(* Changes to a card, link_profiles.py *)

\* with_transfer_overhead, with_csb_edge and with_controller_to_buffer_edge
WithTransferOverhead(card, paths, overhead) ==
  [card EXCEPT !.edge = [p \in DOMAIN @ |->
                           IF p \in paths THEN [@[p] EXCEPT !.overhead = overhead]
                           ELSE @[p]]]
WithEdge(card, path, latency, rate) ==
  [edge |-> [p \in DOMAIN card.edge \cup {path} |->
               IF p = path THEN Edge(path, None, TRUE, 0) ELSE card.edge[p]],
   channel |-> [c \in DOMAIN card.channel \cup {path} |->
                  IF c = path THEN Channel(latency, rate) ELSE card.channel[c]]]

=============================================================================
