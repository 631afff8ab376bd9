--------------------------------- MODULE Media -------------------------------
(***************************************************************************)
(* What the media server hands out (apps/cli/src/Server/Routes.ts) and the *)
(* playlists and subtitles it makes of a film (packages/media/src).  Times *)
(* of the playlists are whole seconds here, times of cues and offsets are  *)
(* counted in halves of a millisecond.                                     *)
(***************************************************************************)
EXTENDS Integers, SequencesExt

Least(m, n) == IF m < n THEN m ELSE n
Most(m, n)  == IF m > n THEN m ELSE n

-----------------------------------------------------------------------------
(* Hls/Playlist.ts.                                                        *)
SEGMENT_DURATION == 6

segmentCount_Floored(duration) == Most(1, duration \div SEGMENT_DURATION)
segmentCount(duration) ==
  Most(1, (duration + SEGMENT_DURATION - 1) \div SEGMENT_DURATION)

segmentStart(index) == index * SEGMENT_DURATION
segmentLength(index, duration) ==
  Least(SEGMENT_DURATION, Most(0, duration - index * SEGMENT_DURATION))

variantsFor(ladder) == SelectSeq(ladder, LAMBDA rung : rung.tag = "Encode")

(* One entry per rung; the urls count from zero.                           *)
master(rungs, audioBitsPerSecond) ==
  [i \in DOMAIN rungs |-> [bandwidth |-> rungs[i].bitrate + audioBitsPerSecond, variant |-> i - 1]]

media(duration, variant) ==
  [target   |-> SEGMENT_DURATION,
   segments |-> [i \in 1..segmentCount(duration) |->
                   [length |-> segmentLength(i - 1, duration), variant |-> variant, segment |-> i - 1]]]

-----------------------------------------------------------------------------
(***************************************************************************)
(* Routes.  A parameter is a number, counted in halves to have some that   *)
(* are not whole, or a text that is none.                                  *)
(***************************************************************************)
Number(halves) == [number |-> TRUE, halves |-> halves]
Whole(n)       == Number(2 * n)
NotANumber     == [number |-> FALSE, halves |-> 0]
Empty          == [number |-> FALSE, halves |-> -1]

Isnt(status) == [status |-> status]

indexIn(count, param) ==
  /\ param.number /\ param.halves % 2 = 0
  /\ param.halves \div 2 \in 0..Most(0, count - 1)

variant(ladder, duration, param) ==
  IF ~indexIn(Len(ladder), param) THEN Isnt(404)
  ELSE [status |-> 200, playlist |-> media(duration, param.halves \div 2)]

(* ffmpeg.segment: tables, then the film from there on, a packet a second. *)
Packet(pid, rung, at) == [pid |-> pid, rung |-> rung, at |-> at]
Encoded(rung, start, length) ==
  <<Packet("SDT", rung, 0), Packet("PAT", rung, 0), Packet("PMT", rung, 0)>>
  \o [i \in 1..length |-> Packet("video", rung, start + i - 1)]

(* The first packet a receiver probes has to be a PAT.                     *)
patFirst(packets) == SelectSeq(packets, LAMBDA packet : packet.pid # "SDT")

segment(ladder, duration, variantParam, segmentParam) ==
  LET v == variantParam.halves \div 2
      s == segmentParam.halves \div 2
  IN  IF \/ ~indexIn(Len(ladder), variantParam) \/ ~indexIn(segmentCount(duration), segmentParam)
         \/ v + 1 \notin DOMAIN ladder
      THEN Isnt(404)
      ELSE [status |-> 200,
            packets |-> patFirst(Encoded(v, segmentStart(s), segmentLength(s, duration)))]

(***************************************************************************)
(* The offset in a query: the last o that is not empty, if it is a number, *)
(* and not a negative one.  0 is an offset; -1 stands for none.            *)
(***************************************************************************)
offsetFromUrl_Falsy(query) ==
  LET given == SelectSeq(query, LAMBDA value : value # Empty)
  IN  IF given = <<>> \/ ~Last(given).number \/ Last(given).halves <= 0 THEN -1 ELSE Last(given).halves
offsetFromUrl(query) ==
  LET given == SelectSeq(query, LAMBDA value : value # Empty)
  IN  IF given = <<>> \/ ~Last(given).number \/ Last(given).halves < 0 THEN -1 ELSE Last(given).halves

startOf(query, session) ==
  IF offsetFromUrl(query) = -1 THEN session.offsetSeconds ELSE offsetFromUrl(query)

(* /stream: ffmpeg seeks there and counts from zero.                       *)
stream(query, session) == [from |-> startOf(query, session), rung |-> session.rung]

(* /vod.mp4: the finished file, or the octets of it a range asks for.  An  *)
(* end that is left out is -1.                                             *)
NoRange     == [kind |-> "none"]
OtherRange  == [kind |-> "other"]
Bytes(start, end) == [kind |-> "bytes", start |-> start, end |-> end]

vod(header, fileSize) ==
  LET end == IF header.end = -1 THEN fileSize - 1 ELSE header.end
  IN  CASE header.kind = "none"  -> [status |-> 200, start |-> 0, length |-> fileSize]
        [] header.kind = "other" -> Isnt(416)
        [] header.kind = "bytes" ->
             IF header.start >= fileSize \/ end >= fileSize THEN Isnt(416)
             ELSE [status |-> 206, start |-> header.start, length |-> end - header.start + 1]

-----------------------------------------------------------------------------
(* Vtt/Codec.ts and Vtt/Srt.ts.  A timestamp is its four fields; the last  *)
(* is as many thousandths as the fraction rounds to, 1000 of them too.     *)
Resolution == 2
Second == 1000 * Resolution

formatTimestamp(time) ==
  LET clamped == Most(0, time)
      seconds == clamped \div Second
  IN  [hours |-> seconds \div 3600, minutes |-> (seconds \div 60) % 60, seconds |-> seconds % 60,
       thousandths |-> (2 * (clamped % Second) + Resolution) \div (2 * Resolution)]

(* The digits after the point, read as a fraction: .1000 is a tenth.       *)
parseTimestamp(fields) ==
  (fields.hours * 3600 + fields.minutes * 60 + fields.seconds) * Second
  + Resolution * (IF fields.thousandths = 1000 THEN 100 ELSE fields.thousandths)

encode(cues) ==
  [i \in DOMAIN cues |-> [start |-> formatTimestamp(cues[i].start),
                          end |-> formatTimestamp(cues[i].end), text |-> cues[i].text]]

decode(vtt) ==
  [i \in DOMAIN vtt |-> [start |-> parseTimestamp(vtt[i].start),
                         end |-> parseTimestamp(vtt[i].end), text |-> vtt[i].text]]

(* SubRip numbers its cues from one.                                       *)
encodeSrt(cues) ==
  [i \in DOMAIN cues |-> [number |-> i, start |-> formatTimestamp(cues[i].start),
                          end |-> formatTimestamp(cues[i].end), text |-> cues[i].text]]

cutFrom_Started(cues, offset) ==
  LET left == SelectSeq(cues, LAMBDA cue : cue.start > offset)
  IN  [i \in DOMAIN left |-> [left[i] EXCEPT !.start = @ - offset, !.end = @ - offset]]
cutFrom(cues, offset) ==
  LET left == SelectSeq(cues, LAMBDA cue : cue.end > offset)
  IN  [i \in DOMAIN left |-> [left[i] EXCEPT !.start = @ - offset, !.end = @ - offset]]

(* /subs.vtt and /subs.srt.                                                *)
subtitles(query, session, cues)    == encode(cutFrom(cues, startOf(query, session)))
subtitlesSrt(query, session, cues) == encodeSrt(cutFrom(cues, startOf(query, session)))

-----------------------------------------------------------------------------
(* Tracks/Select.ts: preferred languages first, the container's order in   *)
(* one language; what is in none of them is dropped.                       *)
rankedByLanguage(streams, languages) ==
  FlattenSeq([r \in DOMAIN languages |->
                SelectSeq(streams, LAMBDA s : SelectInSeq(languages, LAMBDA l : l = s.language) = r)])

chooseAudio(streams, languages) ==
  LET ranked == rankedByLanguage(streams, languages)
      default == SelectSeq(streams, LAMBDA s : s.isDefault)
  IN  IF ranked # <<>> THEN <<ranked[1]>>
      ELSE IF default # <<>> THEN <<default[1]>>
      ELSE IF streams # <<>> THEN <<streams[1]>> ELSE <<>>

contendersFor(ranked) == SelectSeq(ranked, LAMBDA s : s.language = ranked[1].language)

(* The most cues (cueCount[s]: how many were read out of stream s); of as  *)
(* many, the container's order.                                            *)
bestSubtitle(streams, languages, cueCount) ==
  LET contenders == contendersFor(rankedByLanguage(streams, languages))
      most == {i \in DOMAIN contenders :
                 \A j \in DOMAIN contenders : cueCount[contenders[j]] <= cueCount[contenders[i]]}
  IN  IF contenders = <<>> THEN <<>>
      ELSE <<contenders[CHOOSE i \in most : \A j \in most : i <= j]>>

==============================================================================
