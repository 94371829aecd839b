------------------------------- MODULE Streams -------------------------------
(***************************************************************************)
(* The channels of a node (ITelemetryChannel.h, ethernetdev/main.cpp): how *)
(* requests from the network and the console set them, and what            *)
(* TelemetryService makes of them, the interval between packets and the    *)
(* samples in each.  When streams run is Telemetry's subject; here are the *)
(* numbers.                                                                *)
(***************************************************************************)
EXTENDS Activity, Naturals, Sequences, FiniteSets

\* ASCII codes are below 128, so that a tag is below 2^31.
MAKE_FOURCC(a, b, c, d) == a + b * 2 ^ 8 + c * 2 ^ 16 + d * 2 ^ 24

StreamTags ==
  [CNTR |-> MAKE_FOURCC(\h43, \h4E, \h54, \h52), TEMP |-> MAKE_FOURCC(\h54, \h45, \h4D, \h50),
   ADC0 |-> MAKE_FOURCC(\h41, \h44, \h43, \h30), IMU0 |-> MAKE_FOURCC(\h49, \h4D, \h55, \h30),
   PIXL |-> MAKE_FOURCC(\h50, \h49, \h58, \h4C), STR8 |-> MAKE_FOURCC(\h53, \h54, \h52, \h38),
   STR1 |-> MAKE_FOURCC(\h53, \h54, \h52, \h31), STR3 |-> MAKE_FOURCC(\h53, \h54, \h52, \h33),
   STR6 |-> MAKE_FOURCC(\h53, \h54, \h52, \h36), RAW0 |-> MAKE_FOURCC(\h52, \h41, \h57, \h30)]

\* What the service asks a channel for.
Channel(class, tag, rate, batch, elements, width) ==
  [class |-> class, tag |-> StreamTags[tag], rate |-> rate, batch |-> batch,
   bytes |-> elements * width, enabled |-> FALSE]

CounterChannel(rate) == Channel("Counter", "CNTR", rate, 1, 1, 4)
TemperatureChannel(rate) == Channel("Temperature", "TEMP", rate, 1, 1, 4)
StressTestChannel(elements, tag, rate, batch) == Channel("Stress", tag, rate, batch, elements, 2)

\* set_sample_rate_hz and set_batch_count of the three classes.
SetRate(ch, rate) ==
  IF rate = 0 THEN ch
  ELSE IF ch.class = "Stress" THEN [ch EXCEPT !.rate = rate]
  ELSE [ch EXCEPT !.rate = rate, !.batch = 1]

SetBatch(ch, batch) ==
  [ch EXCEPT !.batch = IF ch.class = "Stress" THEN IF batch > 0 THEN batch ELSE @
                       ELSE IF batch \in 1 .. 100 THEN batch ELSE 1]
-----------------------------------------------------------------------------
(* The service's slots. *)

MaxChannels == 8

register_channel(slots, ch) ==
  IF Len(slots) >= MaxChannels \/ \E i \in DOMAIN slots : slots[i].tag = ch.tag
  THEN slots ELSE Append(slots, ch)

Registered(channels) ==
  LET after[i \in 0 .. Len(channels)] ==
        IF i = 0 THEN <<>> ELSE register_channel(after[i - 1], channels[i])
  IN  after[Len(channels)]

\* The channels of the application, in the order it registers them.
NodeChannels ==
  << CounterChannel(10), TemperatureChannel(1), StressTestChannel(16, "STR1", 1000, 45),
     StressTestChannel(64, "STR6", 5000, 11), StressTestChannel(64, "RAW0", 50000, 11) >>

\* The slots with a tag's channel: the first of them, or none.
find_channel(slots, tag) ==
  {i \in DOMAIN slots : slots[i].tag = tag /\ \A j \in 1 .. i - 1 : slots[j].tag # tag}

Configured(ch, req) ==
  LET on == SetRate([ch EXCEPT !.enabled = TRUE], req.rate)
  IN  IF req.batch > 0 /\ req.rate > 100 THEN SetBatch(on, req.batch) ELSE on

start_streaming(slots, req) ==
  LET named == IF req.tag # 0 THEN find_channel(slots, req.tag) ELSE DOMAIN slots
  IN  [i \in DOMAIN slots |-> IF i \in named THEN Configured(slots[i], req) ELSE slots[i]]
-----------------------------------------------------------------------------
(* Requests: CMD_START_STREAM's payload, and the words of a CLI command. *)

StartRequest(cmd) ==
  LET tag == IF cmd.param2 > 100 THEN cmd.param2 ELSE cmd.cmd_id
  IN  [tag |-> tag,
       rate |-> IF cmd.param1 = 10000 THEN 0 ELSE cmd.param1,
       batch |-> IF tag # 0 /\ cmd.param2 \in 1 .. 100 THEN cmd.param2 ELSE 0]

StopTag(cmd) == IF cmd.param2 > 100 THEN cmd.param2 ELSE cmd.cmd_id

\* A word is its length, its first four characters as a tag, and what atoi
\* makes of it, here in its low 16 bits.
TagWord(tag) == [len |-> 4, tag |-> StreamTags[tag], number |-> 0]
NumberWord(n) ==
  LET digits == Cardinality({k \in 0 .. 9 : k = 0 \/ n >= 10 ^ k})
      digit(k) == 48 + ((n \div 10 ^ (4 - k)) % 10)
  IN  [len |-> digits, tag |-> MAKE_FOURCC(digit(1), digit(2), digit(3), digit(4)),
       number |-> n % 2 ^ 16]

CliStart(words) ==
  LET tagged == Len(words) > 0 /\ words[1].len = 4
  IN  [tag |-> IF tagged THEN words[1].tag ELSE 0,
       rate |-> IF Len(words) = 2 THEN words[2].number
                ELSE IF Len(words) = 1 /\ ~tagged THEN words[1].number ELSE 0,
       batch |-> 0]

CliStopTag(words) == IF Len(words) > 0 /\ words[1].len = 4 THEN words[1].tag ELSE 0

\* The payloads of apply_view and of test_set_rate.py.
ViewStart(tag, rate) == [cmd_id |-> 0, param1 |-> rate, param2 |-> StreamTags[tag]]
-----------------------------------------------------------------------------
(* The sending loop. *)

\* interval_ticks; a tick is a millisecond.
Interval(ch) ==
  LET rate == IF ch.rate = 0 THEN 1 ELSE ch.rate
      batch == IF ch.batch = 0 THEN 1 ELSE ch.batch
      ms == (batch * 1000) \div rate
  IN  IF ms < 1 THEN 1 ELSE ms

MaxTxBuffer == 1472
Headers == 16 + 20

\* samples_to_send; produce_samples of every channel makes that many.
Samples(batch, bytes) ==
  LET wanted == IF batch \in 1 .. 100 THEN batch ELSE 1
      max_allowed == (MaxTxBuffer - Headers) \div bytes
  IN  IF wanted > max_allowed THEN max_allowed ELSE wanted

\* The first value of a packet and the counter after it: CounterChannel counts
\* in 32 bits, which no run here exhausts, StressTestChannel in 16.  (What
\* TemperatureChannel sends are readings; they have no order to miss one by.)
Produce(ch, counter, n) ==
  IF ch.class = "Stress"
  THEN [first |-> (counter + 1) % 2 ^ 16, next |-> (counter + n) % 2 ^ 16]
  ELSE [first |-> counter, next |-> counter + n]

\* Mutant: a packet that gets no netbuf takes no number.
FrameNumberedLate(s, slots, i, netbuf) ==
  LET n == Samples(slots[i].batch, slots[i].bytes)
      made == Produce(slots[i], s.counter[i], n)
      seq == IF netbuf THEN s.seq_num + 1 ELSE s.seq_num
  IN  IF n = 0 THEN s ELSE
      [seq_num |-> seq, counter |-> [s.counter EXCEPT ![i] = made.next],
       sent |-> IF netbuf THEN Append(s.sent, [seq |-> seq, slot |-> i, first |-> made.first,
                                               last |-> made.next])
                ELSE s.sent]

\* sendChannelFrame of slot i, with or without a netbuf to be had: the samples
\* are made and the sequence number is taken in either case.
sendChannelFrame(s, slots, i, netbuf) ==
  LET n == Samples(slots[i].batch, slots[i].bytes)
      made == Produce(slots[i], s.counter[i], n)
      packet == [seq |-> s.seq_num + 1, slot |-> i, first |-> made.first, last |-> made.next]
  IN  IF n = 0 THEN s ELSE
      [seq_num |-> s.seq_num + 1, counter |-> [s.counter EXCEPT ![i] = made.next],
       sent |-> IF netbuf THEN Append(s.sent, packet) ELSE s.sent]
-----------------------------------------------------------------------------
(* Rates at which an interval or a cut sets in, and the code's own limits. *)
Rates == {0, 1, 2, 7, 10, 44, 45, 46, 50, 99, 100, 101, 500, 501, 999, 1000, 1001, 4999, 5000,
          9999, 10000, 10001, 11000, 11001, 45000, 50000, 65535}

Node == Registered(NodeChannels)
Requests ==
  {StartRequest([cmd_id |-> c, param1 |-> r, param2 |-> p]) :
     c \in {0, 7}, r \in Rates,
     p \in {0, 1, 50, 100, 101} \cup {StreamTags[t] : t \in DOMAIN StreamTags}}
  \cup {CliStart(words) :
          words \in {<<TagWord(t), NumberWord(r)>> : t \in {"CNTR", "STR6"}, r \in Rates}
                      \cup {<<NumberWord(r)>> : r \in Rates} \cup {<<>>}}

\* Every setting of every channel after two requests.
After(configs) == {start_streaming(slots, req) : slots \in configs, req \in Requests}
Settings ==
  LET one == After({Node})
  IN  UNION {{<<i, slots[i]>> : i \in DOMAIN Node} : slots \in {Node} \cup one \cup After(one)}

\* The channels all get a slot of their own; a duplicate or a ninth gets none.
SlotsAreOwn ==
  /\ [i \in DOMAIN Node |-> Node[i].tag] = [i \in DOMAIN NodeChannels |-> NodeChannels[i].tag]
  /\ Registered(NodeChannels \o NodeChannels) = Node
  /\ Len(Registered([i \in 1 .. 9 |-> [NodeChannels[1] EXCEPT !.tag = i]])) = MaxChannels

\* 10000 from the network is no rate.
NamedRates == Rates \ {10000}

\* A stop names what the start of the same payload named, and both interfaces
\* say the same by the same tag.
InterfacesAgree ==
  /\ \A c \in {0, 7}, p \in {0, 1, 100, 101, StreamTags.CNTR} :
       LET cmd == [cmd_id |-> c, param1 |-> 0, param2 |-> p]
       IN  StartRequest(cmd).tag = StopTag(cmd)
  /\ \A t \in DOMAIN StreamTags, r \in NamedRates :
       /\ CliStart(<<TagWord(t), NumberWord(r)>>) = StartRequest(ViewStart(t, r))
       /\ CliStopTag(<<TagWord(t)>>) = StopTag(ViewStart(t, r))

\* No number passes for a channel's tag.
TagsTell ==
  /\ \A s, t \in DOMAIN StreamTags : StreamTags[s] = StreamTags[t] => s = t
  /\ \A t \in DOMAIN StreamTags : StreamTags[t] > 2 ^ 16
  /\ \A n \in Rates : find_channel(Node, NumberWord(n).tag) = {}

\* What a request names is what was meant.
RequestsName == SlotsAreOwn /\ InterfacesAgree /\ TagsTell

NameOf(ch) == CHOOSE t \in DOMAIN StreamTags : StreamTags[t] = ch.tag

\* The rate a view or the console asks for is the rate the stream has from
\* then on, and no other stream's changes; only 10000 from the network keeps
\* the old one.  No request changes the batch of a stress channel, although
\* one looks as if it could: a payload with a batch has no room for a tag.
RatesTake ==
  /\ \A i \in DOMAIN Node, r \in Rates \ {0, 10000} :
       LET after == start_streaming(Node, StartRequest(ViewStart(NameOf(Node[i]), r)))
       IN  /\ after[i].rate = r /\ after[i].enabled
           /\ \A j \in DOMAIN Node \ {i} : after[j] = Node[j]
  /\ \A s \in Settings : s[2].batch = Node[s[1]].batch

Batches == {0, 1, 11, 45, 99, 100, 101, 65535}

\* A frame is never longer than a datagram, and empty only for a channel whose
\* one sample is too long for it, whatever its batch.
FrameFits(batch, bytes) ==
  LET n == Samples(batch, bytes)
  IN  Headers + n * bytes <= MaxTxBuffer /\ (n = 0 <=> Headers + bytes > MaxTxBuffer)
FramesFit == \A bytes \in 1 .. 1500, batch \in Batches : FrameFits(batch, bytes)

\* A stream whose batch is sent whole at intervals of a tick or more never
\* falls behind its rate, and waiting a tick more it would; one that a request
\* has slowed down still sends every second, but for the stress channels.
\* Of the native settings STR1's and RAW0's alone ask for more than is sent.
KeepsUp(ch) == Samples(ch.batch, ch.bytes) * 1000 >= ch.rate * Interval(ch)
StreamsKeepUp ==
  /\ \A s \in Settings :
       LET ch == s[2]
       IN  /\ Samples(ch.batch, ch.bytes) = ch.batch /\ ch.batch * 1000 >= ch.rate =>
                KeepsUp(ch) /\ ch.batch * 1000 < ch.rate * (Interval(ch) + 1)
           /\ ch.class # "Stress" => Interval(ch) <= 1000
  /\ {i \in DOMAIN Node : ~KeepsUp(Node[i])} = {3, 5}

\* Sent packets, numbered across all streams: while no number is missing
\* between two packets of a channel, no sample is missing either, and the
\* other way round a packet that was not sent leaves its number out.
Schedules == [1 .. 4 -> {1, 3} \X BOOLEAN]
Sent(schedule, counter) ==
  LET after[k \in 0 .. 4] ==
        IF k = 0 THEN [seq_num |-> 0, counter |-> [i \in DOMAIN Node |-> counter], sent |-> <<>>]
        ELSE sendChannelFrame(after[k - 1], Node, schedule[k][1], schedule[k][2])
  IN  after[4].sent
NoGapNoLoss ==
  \A schedule \in Schedules, counter \in {0, 65500} :
    LET sent == Sent(schedule, counter)
    IN  \A j, k \in DOMAIN sent :
          /\ j < k
          /\ sent[k].seq - sent[j].seq = k - j
          /\ \A l \in j .. k : sent[l].slot = sent[j].slot <=> l \in {j, k}
          => sent[k].first = Produce(Node[sent[j].slot], sent[j].last, 1).first

\* What a host may rely on when it sets and receives a node's streams.
StreamsDeliver ==
  /\ RequestsName
  /\ RatesTake
  /\ FramesFit
  /\ StreamsKeepUp
  /\ NoGapNoLoss

\* A node that streams sends what was asked for (TelemetryService.cpp,
\* ITelemetryChannel.h): requests reach the channel they name, its rate is kept
\* up, frames fit a datagram, and a missing sample leaves a sequence number out.
StreamsHold == streaming => StreamsDeliver
=============================================================================
