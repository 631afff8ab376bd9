----------------------------- MODULE MCAlgorithms ----------------------------
(***************************************************************************)
(* The pure parts of the code, run through on small inputs: a case picks   *)
(* the subject and its input, and each property says of every case of its  *)
(* subject what the operators must return.  One subject, the messages of a *)
(* pairing, goes on from its case as Pairing says, and has its properties  *)
(* there.                                                                  *)
(***************************************************************************)
EXTENDS Srp, Tlv8, MCPairing

CONSTANT HighBit   \* of Frame

Found  == INSTANCE Mdns
Search == INSTANCE Ssdp
Served == INSTANCE Media
Wire   == INSTANCE Frame

VARIABLE case  \* the subject and its input

Choose(cases) == case.of = "none" /\ case' \in cases /\ UNCHANGED vars

-----------------------------------------------------------------------------
(* SRP: a code kept and a code typed, and the private keys of both sides.  *)
SrpCodes == 0..3
Privates == 1..(Modulus - 1)

SrpCases == [of : {"srp"}, code : SrpCodes, typed : SrpCodes, a : Privates, b : Privates]

Who(code) == [username |-> <<2>>, password |-> <<code>>, salt |-> <<1>>]

(* g^e by plain multiplication; the exponent counts modulo Modulus - 1.    *)
Power(e) == (Generator ^ (e % (Modulus - 1))) % Modulus

(* Srp/Client.ts and Server.ts: with the same code the two sides           *)
(* prove to one another that they hold g^(b(a + ux)), unless the public    *)
(* key sent came out as zero, which the client refuses; and with another   *)
(* code a proof is taken only where the two keys happen to be the same.    *)
SrpAgrees ==
  case.of = "srp" =>
    LET v      == verifier(Who(case.code))
        A      == clientPublic(case.a)
        B      == serverPublic(toBigInt(v), case.b)
        client == proveSecret(Who(case.typed), case.a, Who(case.code).salt, encode(B))
        server == verify(Who(case.code), v, case.b, encode(A), client.m1)
        secret == Power(case.b * (case.a + scrambler(A, B) * privateKey(Who(case.code))))
    IN  IF B = 0 THEN client = InvalidPublicKey("server")
        ELSE /\ client.error = "none"
             /\ server.error = "none" <=> client.sessionKey = encode(secret)
             /\ case.typed = case.code => server.error = "none"
             /\ server.error = "none" =>
                  /\ server.sessionKey = client.sessionKey
                  /\ verifyServer(client, server.m2).error = "none"
                  /\ verifyServer(client, client.m1) = ProofRejected("M2")

-----------------------------------------------------------------------------
(* TLV8: lists of up to three items, of values around the length at which  *)
(* a value is cut.                                                         *)
Values == { [i \in 1..n |-> i % 2] : n \in {0, 1, MaxValueLength, MaxValueLength + 1, 2 * MaxValueLength} }
TlvItem == [type : {Separator, 1, 2}, value : Values]

TlvCases == [of : {"tlv"}, items : BoundedSeq(TlvItem, 3)]

(* Tlv8/Codec: what was encoded is decoded, item by item, also where a     *)
(* value fills its fragments or an item follows another of its type; a     *)
(* payload cut short is refused or read as less than it was; and the       *)
(* groups are the items between the separators, none of them empty.        *)
TlvRoundTrip ==
  case.of = "tlv" =>
    LET bytes == encodeItems(case.items)
    IN  /\ decodeItems(bytes) = [error |-> "none", items |-> case.items]
        /\ \A n \in 0..(Len(bytes) - 1) :
             LET cut == decodeItems(SubSeq(bytes, 1, n))
             IN  \/ cut = Truncated
                 \/ /\ cut.error = "none" /\ Len(cut.items) <= Len(case.items)
                    /\ \A i \in DOMAIN cut.items :
                         /\ cut.items[i].type = case.items[i].type
                         /\ IsPrefix(cut.items[i].value, case.items[i].value)
        /\ FlattenSeq(groups(case.items)) =
             SelectSeq(case.items, LAMBDA item : item.type # Separator)
        /\ \A i \in DOMAIN groups(case.items) : groups(case.items)[i] # <<>>

-----------------------------------------------------------------------------
(* Cast frames: one or two messages, of fields around the length at which  *)
(* a varint takes another group.                                           *)
OctetsOf(n) == [i \in 1..n |-> i % 2]

Sent == {Wire!Message(<<1>>, <<>>, OctetsOf(n), p) :
           n \in {0, HighBit - 1, HighBit},
           p \in {Wire!Text(OctetsOf(m)) : m \in {0, HighBit, HighBit * HighBit}}
                   \cup {Wire!Binary(OctetsOf(m)) : m \in {0, HighBit - 1}}}

FrameCases == [of : {"frames"}, messages : BoundedSeq(Sent, 2)]

(* Frame.ts and CastSocket.ts: messages written one after another are all  *)
(* queued, in order and once, wherever the reads of the socket end, one    *)
(* octet each even, and nothing of them stays behind; a frame that lacks   *)
(* its last octet is not given out; and a message is read the same in any  *)
(* turn of its fields (the payload may come before its type), with fields  *)
(* of a later protocol among them.                                         *)
FramesSurvive ==
  case.of = "frames" =>
    LET bytes == FlattenSeq([i \in DOMAIN case.messages |-> Wire!encodeFrame(case.messages[i])])
        whole == [queue |-> case.messages, pending |-> <<>>]
        Turned(seq, n) == SubSeq(seq, n + 1, Len(seq)) \o SubSeq(seq, 1, n)
        later == << <<9 * 8 + Wire!Varint>> \o Wire!encodeVarint(HighBit), <<15 * 8 + Wire!LengthDelimited, 1, 0>> >>
    IN  /\ \A cut \in 0..Len(bytes) :
             Wire!Queued(<<SubSeq(bytes, 1, cut), SubSeq(bytes, cut + 1, Len(bytes))>>) = whole
        /\ Wire!Queued([i \in DOMAIN bytes |-> <<bytes[i]>>]) = whole
        /\ bytes # <<>> =>
             Wire!Queued(<<Front(bytes)>>).queue = Front(case.messages)
        /\ \A i \in DOMAIN case.messages :
             LET fields == Wire!fieldsOf(case.messages[i]) \o later
             IN  \A n \in 0..Len(fields), back \in BOOLEAN :
                   Wire!decodeMessage(FlattenSeq(IF back THEN Reverse(Turned(fields, n)) ELSE Turned(fields, n)))
                     = case.messages[i]

(* Octets survive their way (see the two parts).                           *)
OctetsSurvive == TlvRoundTrip /\ FramesSurvive

-----------------------------------------------------------------------------
(* HLS: the length of a film and the rungs it may be had in.               *)
Rungs == {[tag |-> "Copy", bitrate |-> 8], [tag |-> "Encode", bitrate |-> 4], [tag |-> "Encode", bitrate |-> 2]}

HlsCases == [of : {"hls"}, duration : 0..19, ladder : BoundedSeq(Rungs, 3)]

(* The seconds of film in what a segment brought.                          *)
Seconds(answer) ==
  LET film == SelectSeq(answer.packets, LAMBDA packet : packet.pid = "video")
  IN  [i \in DOMAIN film |-> film[i].at]

(* Playlist.ts and the routes of Routes.ts: everything the master playlist *)
(* leads to is there, whichever variant a receiver changes to between two  *)
(* segments it gets the whole film, every second once, behind a PAT, in    *)
(* segments as long as they were announced; and what was not offered is    *)
(* not found (but the playlist of a first variant nobody advertised).      *)
FilmIsTiled ==
  case.of = "hls" =>
    LET offered == Served!variantsFor(case.ladder)
        entries == Served!master(offered, 1)
        count   == Served!segmentCount(case.duration)
        Got(v, s) == Served!segment(offered, case.duration, Served!Whole(v), Served!Whole(s))
        Strange == {Served!Whole(-1), Served!Number(1), Served!NotANumber, Served!Whole(Len(offered))}
    IN  /\ \A e \in DOMAIN entries :
             LET list == Served!variant(offered, case.duration, Served!Whole(entries[e].variant))
             IN  /\ list.status = 200
                 /\ \A s \in DOMAIN list.playlist.segments :
                      LET item == list.playlist.segments[s]
                          got  == Got(item.variant, item.segment)
                      IN  /\ got.status = 200 /\ got.packets[1].pid = "PAT"
                          /\ Len(Seconds(got)) = item.length /\ item.length <= list.playlist.target
                          /\ \A i \in DOMAIN got.packets : got.packets[i].rung = entries[e].variant
                 /\ \A other \in DOMAIN entries :
                      FlattenSeq([s \in DOMAIN list.playlist.segments |->
                                    Seconds(Got(IF s % 2 = 0 THEN entries[other].variant ELSE entries[e].variant,
                                                s - 1))])
                        = [i \in 1..case.duration |-> i - 1]
        /\ \A strange \in Strange :
             /\ \/ Served!variant(offered, case.duration, strange) = Served!Isnt(404)
                \/ offered = <<>> /\ strange = Served!Whole(0)
             /\ Served!segment(offered, case.duration, strange, Served!Whole(0)) = Served!Isnt(404)
        /\ Served!segment(offered, case.duration, Served!Whole(0), Served!Whole(count)) = Served!Isnt(404)

-----------------------------------------------------------------------------
(* The finished file: its size, and the steps a player reads it in.        *)
RangeCases == [of : {"ranges"}, size : 0..6, step : 1..4, start : 0..7, end : -1..7]

(* Routes.ts, /vod.mp4: a player that reads in steps and knows where the   *)
(* file ends, or leaves the last end out, gets every octet once; one that  *)
(* asks past the end is refused the whole range; and a range is answered   *)
(* exactly when it lies in the file, with as many octets as it spans (a    *)
(* range that ends before it starts is answered too, with less than one).  *)
RangesAddUp ==
  case.of = "ranges" =>
    LET n == case.size
        Part(from, to) == Served!vod(Served!Bytes(from, to), n)
        asked == Part(case.start, case.end)
        steps == {k \in 0..5 : k * case.step < n}
    IN  /\ \A k \in steps :
             LET from == k * case.step
                 to   == from + case.step - 1
             IN  IF to < n THEN Part(from, to) = [status |-> 206, start |-> from, length |-> case.step]
                 ELSE /\ Part(from, to) = Served!Isnt(416)
                      /\ Part(from, n - 1) = [status |-> 206, start |-> from, length |-> n - from]
                      /\ Part(from, -1) = Part(from, n - 1)
        /\ asked.status = 206 <=> case.start < n /\ case.end < n
        /\ asked.status = 206 => asked.start + asked.length <= n
        /\ asked.status = 206 /\ case.end # -1 => (asked.length < 1 <=> case.end < case.start)
        /\ Served!vod(Served!NoRange, n).length = n
        /\ Served!vod(Served!OtherRange, n) = Served!Isnt(416)

(* What is served is the film, whole and in order (see the two parts).     *)
ServesTheFilm == FilmIsTiled /\ RangesAddUp

-----------------------------------------------------------------------------
(* Subtitles: two cues, what the query says, and where the session is.     *)
Times == {0, 1, 1999, 2000, 4001}
CueCases ==
  [of : {"cues"}, start : Times, lasts : {1, 1998, 7200000}, second : Times,
   query : {"none", "empty", "text", "negative", "given", "given_then_empty", "given_last"},
   o : {0, 1, 1999, 2000, 4000}, session : {0, 3000}]

QueryOf(c) ==
  CASE c.query = "none"     -> <<>>
    [] c.query = "empty"    -> <<Served!Empty>>
    [] c.query = "text"     -> <<Served!NotANumber>>
    [] c.query = "negative" -> <<Served!Number(-2)>>
    [] c.query = "given"    -> <<Served!Number(c.o)>>
    [] c.query = "given_then_empty" -> <<Served!Number(c.o), Served!Empty>>
    [] c.query = "given_last"       -> <<Served!Number(7), Served!Number(c.o)>>

(* Routes.ts and Vtt/Codec.ts: the film and its subtitles are cut at the   *)
(* same place, the one the URL gives, be it the start; every cue not over  *)
(* by then is served, in order, and shows within half a millisecond of its *)
(* moment in the film, in both formats, but for a fraction that rounds up  *)
(* to a whole second: its four digits are read as a tenth of one.          *)
CuesKeepTime ==
  case.of = "cues" =>
    LET cues    == << [start |-> case.start, end |-> case.start + case.lasts, text |-> "first"],
                      [start |-> case.second, end |-> case.second + 2000, text |-> "second"] >>
        session == [offsetSeconds |-> case.session, rung |-> 0]
        from    == Served!stream(QueryOf(case), session).from
        shown   == Served!decode(Served!subtitles(QueryOf(case), session, cues))
        srt     == Served!subtitlesSrt(QueryOf(case), session, cues)
        left    == SelectSeq(cues, LAMBDA cue : cue.end > from)
        Shows(seen, moment) ==
          LET after == IF moment > from THEN moment - from ELSE 0
              part  == after % Served!Second
          IN  IF 2 * part >= 2 * Served!Second - Served!Resolution
              THEN seen = after - part + 100 * Served!Resolution
              ELSE 2 * (seen - after) \in -Served!Resolution..Served!Resolution
    IN  /\ from = IF case.query \in {"given", "given_then_empty", "given_last"} THEN case.o ELSE case.session
        /\ Len(shown) = Len(left) /\ Len(srt) = Len(left)
        /\ \A i \in DOMAIN left :
             /\ shown[i].text = left[i].text /\ srt[i].text = left[i].text /\ srt[i].number = i
             /\ Shows(shown[i].start, left[i].start) /\ Shows(shown[i].end, left[i].end)
             /\ Served!parseTimestamp(srt[i].start) = shown[i].start
             /\ Served!parseTimestamp(srt[i].end) = shown[i].end

-----------------------------------------------------------------------------
(* Tracks of a container, and the languages a viewer prefers.              *)
TrackCases ==
  [of : {"tracks"},
   streams : BoundedSeq([language : {"spa", "eng", "und"}, isDefault : BOOLEAN, cues : 0..1], 3),
   languages : {<<>>, <<"spa">>, <<"eng", "spa">>, <<"fra", "und">>, <<"spa", "eng", "spa">>}]

(* Tracks/Select.ts: film with sound is never played without, in the first *)
(* language of the viewer's that it has; subtitles are only ever of that   *)
(* language, the track with the most cues of it, the earliest of those.    *)
TracksByPreference ==
  case.of = "tracks" =>
    LET streams == case.streams
        spoken  == {i \in DOMAIN case.languages :
                      \E s \in DOMAIN streams : streams[s].language = case.languages[i]}
        wanted  == case.languages[CHOOSE i \in spoken : \A j \in spoken : i <= j]
        In(language) == {s \in DOMAIN streams : streams[s].language = language}
        First(indices) == streams[CHOOSE s \in indices : \A t \in indices : s <= t]
        defaults == {s \in DOMAIN streams : streams[s].isDefault}
        richest  == {s \in In(wanted) : \A t \in In(wanted) : streams[t].cues <= streams[s].cues}
        Count == [s \in ToSet(streams) |-> s.cues]
        audio == Served!chooseAudio(streams, case.languages)
        best  == Served!bestSubtitle(streams, case.languages, Count)
    IN  /\ streams = <<>> <=> audio = <<>>
        /\ streams # <<>> =>
             audio[1] = IF spoken # {} THEN First(In(wanted))
                        ELSE IF defaults # {} THEN First(defaults) ELSE streams[1]
        /\ best = IF spoken = {} THEN <<>> ELSE <<First(richest)>>

(* The right subtitles at the right moment (see the two parts).            *)
SubtitlesFollow == CuesKeepTime /\ TracksByPreference

-----------------------------------------------------------------------------
(***************************************************************************)
(* Packets on the network, by kind: the answer of one television in one    *)
(* packet that compresses its names (whole), or in two (where, who); that  *)
(* of another, whole or cut short behind its SRV; those of the emulators   *)
(* of both services; a packet shorter than a header, a name that points to *)
(* itself, an SRV without a port, and an SRV whose port is zero.           *)
(***************************************************************************)
CastService    == <<"_googlecast", "_tcp", "local">>
AirPlayService == <<"_airplay", "_tcp", "local">>

Kinds == {"whole", "where", "who", "other", "cut", "emulated", "airplay", "noise", "loop"}
Bad == {"spoilt", "portless"}

Few == {"whole", "where", "who", "airplay"}

MdnsCases ==
  [of : {"mdns"}, windows : {<<w>> : w \in BoundedSeq(Kinds \cup Bad, 3)}
                              \cup (BoundedSeq(BoundedSeq(Few, 1), 3) \ {<<>>})]

Details(model) == <<Found!TextCell("fn", model), Found!TextCell("md", model)>>

(* Names after the first are pointers; the question is echoed.             *)
Compressed(who, ip, txt) ==
  Found!Message(TRUE, 1, 4,
    Found!encodeName(CastService)                                          \* 1..4
    \o <<Found!Asked, Found!Pointer(1), Found!Fixed("PTR", 2),             \* 5..7
         Found!Label(who), Found!Pointer(1),                               \* 8..9
         Found!Pointer(8), Found!Fixed("SRV", 3), Found!PortCell(8009),    \* 10..12
         Found!Label(who), Found!Pointer(3),                               \* 13..14
         Found!Pointer(8), Found!Fixed("TXT", Len(txt))>> \o txt           \* 15..
    \o <<Found!Pointer(13), Found!Fixed("A", 1), Found!Address(ip)>>)

InFull(who, port, ip) ==
  Found!Message(TRUE, 0, 2,
    Found!record(<<who>> \o CastService, "SRV", port \o Found!encodeName(<<who, "local">>))
    \o Found!record(<<who, "local">>, "A", <<Found!Address(ip)>>))

Emulated(service) ==
  [service |-> service, friendlyName |-> "emulated", model |-> "double", port |-> 8009, address |-> "10.0.0.3"]

PacketOf(kind) ==
  CASE kind = "whole" -> Compressed("tv", "10.0.0.1", Details("Hall"))
    [] kind = "where" -> InFull("tv", <<Found!PortCell(8009)>>, "10.0.0.1")
    [] kind = "who"   -> Found!Message(TRUE, 0, 1, Found!record(<<"tv">> \o CastService, "TXT", Details("Hall")))
    [] kind = "other" -> Compressed("set", "10.0.0.2", Details("Attic"))
    [] kind = "cut"   -> [Compressed("set", "10.0.0.2", Details("Attic")) EXCEPT !.body = SubSeq(@, 1, 16)]
    [] kind = "emulated" -> Found!serve(Emulated(CastService), Found!queryFor(CastService))[1]
    [] kind = "airplay"  -> Found!serveAirPlay(Emulated(AirPlayService), Found!queryFor(AirPlayService))[1]
    [] kind = "noise"    -> [header |-> FALSE]
    [] kind = "loop"     -> Found!Message(TRUE, 0, 1, <<Found!Pointer(1), Found!Fixed("A", 1), Found!Address("10.0.0.9")>>)
    [] kind = "spoilt"   -> Found!Message(TRUE, 0, 1, Found!record(<<"tv">> \o CastService, "SRV", <<>>))
    [] kind = "portless" -> InFull("old", <<Found!PortCell(0)>>, "10.0.0.4")

Packets(window) == [i \in DOMAIN window |-> PacketOf(window[i])]

Television(name, ip, model, id, status) ==
  [name |-> name, ip |-> ip, port |-> 8009, details |-> [model |-> model, status |-> status, id |-> id]]

(* What a window tells of. *)
Told(window) ==
  LET heard == ToSet(window)
  IN  [error |-> "none", devices |->
         (IF {"whole", "where"} \cap heard = {} THEN {}
          ELSE IF {"whole", "who"} \cap heard # {}
               THEN {Television("Hall", "10.0.0.1", "Hall", "undefined", "undefined")}
               ELSE {Television("tv", "10.0.0.1", "undefined", "undefined", "undefined")})
         \cup (IF "other" \in heard
               THEN {Television("Attic", "10.0.0.2", "Attic", "undefined", "undefined")} ELSE {})
         \cup (IF "emulated" \in heard
               THEN {Television("emulated", "10.0.0.3", "double", "emulated", "")} ELSE {})]

(* Mdns.ts and Advertise.ts: the televisions found are the ones whose      *)
(* address and port were heard in one window, once each and under the name *)
(* they gave, however their records were split, ordered, repeated,         *)
(* compressed or cut short, and whatever else is said on the network; the  *)
(* first window that brings one ends the search.  Emulated AirPlay devices *)
(* are found by who asks for that service.  Two kinds of bad packet are    *)
(* left to BadPacketHarmless.                                              *)
MdnsFindsWhoAnswered ==
  case.of = "mdns" /\ (\A i \in DOMAIN case.windows : ToSet(case.windows[i]) \subseteq Kinds) =>
    LET windows == [i \in DOMAIN case.windows |-> Packets(case.windows[i])]
        airPlay == Found!discoverAirPlayWithRetry(windows, AirPlayService)
        host    == Found!advertiseAirPlay("host", 7000, TRUE, Found!queryFor(AirPlayService))
    IN  /\ Found!discoverWithRetry(windows, CastService) =
             Found!Retried([i \in DOMAIN windows |-> Told(case.windows[i])])
        /\ airPlay.error = "none"
        /\ {d.name : d \in airPlay.devices} =
             IF \E i \in DOMAIN case.windows : "airplay" \in ToSet(case.windows[i]) THEN {"emulated"} ELSE {}
        /\ {[name |-> d.name, ip |-> d.ip] : d \in Found!discoverAirPlay(host, AirPlayService).devices} =
             {[name |-> "host", ip |-> "127.0.0.1"]}
        /\ Found!serve(Emulated(CastService), Found!queryFor(AirPlayService)) = <<>>

(* "One bad packet must not take the sweep down" (Mdns.ts:131-132): the    *)
(* devices found are those of the packets that are not bad.                *)
BadPacketHarmless ==
  case.of = "mdns" =>
    LET Heard(kinds) == [i \in DOMAIN case.windows |->
                           Packets(SelectSeq(case.windows[i], LAMBDA kind : kind \in kinds))]
    IN  Found!discoverWithRetry(Heard(Kinds \cup Bad), CastService)
          = Found!discoverWithRetry(Heard(Kinds), CastService)

-----------------------------------------------------------------------------
(***************************************************************************)
(* Datagrams after an SSDP search, by kind: the answers of two renderers,  *)
(* the first of them again from elsewhere, one that carries a second       *)
(* location (in its header, or behind a blank row), one that leaves, and   *)
(* answers that lack what is needed.                                       *)
(***************************************************************************)
Answers == {"one", "one_moved", "two", "two_located_twice", "two_padded", "leaves", "nameless", "nowhere"}

SsdpCases == [of : {"ssdp"}, datagrams : BoundedSeq(Answers, 3), seconds : 0..7,
              target : {"MediaRenderer", "upnp:rootdevice", "ssdp:all", "MediaServer"}]

AnswerOf(kind) ==
  LET From(usn, places) ==
        Search!Datagram("200", [i \in DOMAIN places |-> Search!Row("location", places[i])]
                               \o <<Search!NoColon, Search!Row("usn", usn)>>)
  IN  CASE kind = "one"       -> From("one", <<"hall">>)
        [] kind = "one_moved" -> From("one", <<"attic">>)
        [] kind = "two"       -> From("two", <<"hall">>)
        [] kind = "two_located_twice" -> From("two", <<"attic", "hall">>)
        [] kind = "two_padded" ->
             [From("two", <<"hall">>) EXCEPT !.rows = @ \o <<Search!Blank, Search!Row("location", "attic")>>]
        [] kind = "leaves"    -> [From("one", <<"hall">>) EXCEPT !.first = "NOTIFY"]
        [] kind = "nameless"  -> From("", <<"hall">>)
        [] kind = "nowhere"   -> From("one", <<"hall", "">>)

NameIn(kind) == IF kind \in {"one", "one_moved"} THEN "one"
                ELSE IF kind \in {"two", "two_located_twice", "two_padded"} THEN "two" ELSE ""

(* Ssdp.ts and Discovery.ts: every renderer that answered is found once,   *)
(* where its first answer says, in the order of the first answers; who     *)
(* announces or leaves is not; and the emulated renderer answers searches  *)
(* for it, for a root device or for all, with an answer that is read.      *)
SsdpFindsWhoAnswered ==
  case.of = "ssdp" =>
    LET kinds  == case.datagrams
        firsts == SelectSeq([i \in DOMAIN kinds |-> i],
                            LAMBDA i : NameIn(kinds[i]) # "" /\ \A j \in 1..(i - 1) : NameIn(kinds[j]) # NameIn(kinds[i]))
        found  == Search!search([i \in DOMAIN kinds |-> AnswerOf(kinds[i])])
        query  == Search!searchFor(case.target, case.seconds)
        reply  == Search!answerSearches(query, "description", "uuid")
    IN  /\ [i \in DOMAIN found |-> <<found[i].usn, found[i].location>>]
             = [i \in DOMAIN firsts |-> <<NameIn(kinds[firsts[i]]), IF kinds[firsts[i]] = "one_moved" THEN "attic" ELSE "hall">>]
        /\ reply = <<>> <=> case.target = "MediaServer"
        /\ reply # <<>> =>
             /\ Len(Search!search(reply \o reply)) = 1
             /\ Search!search(reply)[1].location = "description"
             /\ Search!search(reply)[1].searchTarget \in {case.target, Search!MEDIA_RENDERER}

-----------------------------------------------------------------------------
(* A description: a root device, one in it that has another, and a last    *)
(* one; what each offers, who has a name, and where the base is.           *)
Offers == {"nothing", "volume", "transport", "lost", "unversioned"}
Bases  == {"", "elsewhere", "unresolvable"}
DescriptionCases == [of : {"description"}, offers : [1..4 -> Offers], named : {{}, {1}, {3}, {1, 3}}, base : Bases]

Tree(c) ==
  LET Service(type, versioned, control) == [type |-> type, versioned |-> versioned, control |-> control]
      Node(i, devices) ==
        [name |-> IF i \in c.named THEN ToString(i) ELSE "", devices |-> devices,
         services |-> CASE c.offers[i] = "nothing"     -> <<>>
                        [] c.offers[i] = "volume"      -> <<Service("RenderingControl", TRUE, "rc")>>
                        [] c.offers[i] = "transport"   -> <<Service("AVTransport", TRUE, "unresolvable"),
                                                            Service("RenderingControl", TRUE, "rc"),
                                                            Service("AVTransport", TRUE, ToString(i))>>
                        [] c.offers[i] = "lost"        -> <<Service("AVTransport", TRUE, "unresolvable")>>
                        [] c.offers[i] = "unversioned" -> <<Service("AVTransport", FALSE, ToString(i))>>]
  IN  [wellFormed |-> TRUE, urlBase |-> c.base,
       devices |-> <<Node(1, <<Node(2, <<Node(3, <<>>)>>), Node(4, <<>>)>>)>>]

(* Description.ts: the renderer of a description is the first device, the  *)
(* root and then those inside it depth first, that can be told to play at  *)
(* an address that resolves, against URLBase before the place it was read; *)
(* its name is its own or the root's, and without one it is no renderer.   *)
DescriptionNamesARenderer ==
  case.of = "description" =>
    LET got    == Search!parseRenderer(Tree(case), "place")
        Name(i) == IF i \in case.named THEN ToString(i) ELSE IF 1 \in case.named THEN "1" ELSE ""
        able   == {i \in 1..4 : case.offers[i] = "transport" /\ Name(i) # "" /\ case.base # "unresolvable"}
        first  == CHOOSE i \in able : \A j \in able : i <= j
        base   == IF case.base = "" THEN "place" ELSE case.base
    IN  IF able = {} THEN got = <<>>
        ELSE got = << [friendlyName |-> Name(first),
                       avTransport  |-> Search!Url(base, ToString(first)),
                       renderingControl |-> Search!Url(base, "rc")] >>

(* Who is on the network is found (see the three parts).                   *)
DevicesFound == MdnsFindsWhoAnswered /\ SsdpFindsWhoAnswered /\ DescriptionNamesARenderer

-----------------------------------------------------------------------------
CaseInit ==
  /\ Init
  /\ \/ case = [of |-> "pairing"]
     \/ case = [of |-> "none"] /\ attempt = CHOOSE any \in Attempts : any.damage = Unhurt

CaseNext ==
  \/ Choose(SrpCases)
  \/ Choose(TlvCases)
  \/ Choose(FrameCases)
  \/ Choose(HlsCases)
  \/ Choose(RangeCases)
  \/ Choose(CueCases)
  \/ Choose(TrackCases)
  \/ Choose(MdnsCases)
  \/ Choose(SsdpCases)
  \/ Choose(DescriptionCases)
  \/ case.of = "pairing" /\ Next /\ UNCHANGED case

CaseSpec == CaseInit /\ [][CaseNext]_<<case, vars>>
==============================================================================
