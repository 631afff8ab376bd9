--------------------------------- MODULE Ssdp --------------------------------
(***************************************************************************)
(* Searching for DLNA renderers (packages/dlna/src/Ssdp.ts, Discovery.ts,  *)
(* Description.ts) and the emulated one's answers (emulator DlnaDevice.ts).*)
(*                                                                         *)
(* A datagram is its first line and its rows; a row is a name in lower     *)
(* case and a value, or blank.  A description is a tree of devices.        *)
(***************************************************************************)
EXTENDS Integers, SequencesExt

MEDIA_RENDERER == "MediaRenderer"

Row(name, value) == [name |-> name, value |-> value]
Blank == Row("", "")
NoColon == Row("?", "")
Datagram(first, rows) == [first |-> first, rows |-> rows]

boundedMx(seconds) == IF seconds < 1 THEN 1 ELSE IF seconds > 5 THEN 5 ELSE seconds

searchFor(target, seconds) ==
  Datagram("M-SEARCH", <<Row("host", "group"), Row("man", "ssdp:discover"),
                         Row("mx", ToString(boundedMx(seconds))), Row("st", target), Blank>>)

(* The rows with a name, up to the first blank one; a later one of the     *)
(* same name wins.                                                         *)
Fields(rows) ==
  LET named == SelectSeq(rows, LAMBDA row : row # NoColon)
  IN  [name \in {named[i].name : i \in DOMAIN named} |->
         Last(SelectSeq(named, LAMBDA row : row.name = name)).value]

headersOf_PastTheBlank(datagram) ==
  Fields(SelectSeq(datagram.rows, LAMBDA row : row # Blank))
headersOf(datagram) ==
  LET end == SelectInSeq(datagram.rows, LAMBDA row : row = Blank)
  IN  Fields(IF end = 0 THEN datagram.rows ELSE SubSeq(datagram.rows, 1, end - 1))

(* A value that is empty counts as missing.                                *)
header(headers, name) == IF name \in DOMAIN headers THEN headers[name] ELSE ""

(* Absent is the empty sequence.                                           *)
parseResponse(datagram) ==
  LET headers == headersOf(datagram)
  IN  IF datagram.first # "200" \/ header(headers, "location") = "" \/ header(headers, "usn") = ""
      THEN <<>>
      ELSE << [location |-> header(headers, "location"), usn |-> header(headers, "usn"),
               server |-> header(headers, "server"), searchTarget |-> header(headers, "st")] >>

(* The answers of one wait, in the order they came: the first of a name    *)
(* that is unique is kept.                                                 *)
search(datagrams) ==
  FoldLeft(LAMBDA all, datagram :
             LET found == parseResponse(datagram)
             IN  IF found = <<>> \/ \E i \in DOMAIN all : all[i].usn = found[1].usn THEN all
                 ELSE Append(all, found[1]),
           <<>>, datagrams)

-----------------------------------------------------------------------------
(* The emulated renderer: the target it answers for, and the answer.  It   *)
(* reads every row that has a name, behind a blank one too.                *)
searchTargetOf(datagram) ==
  LET headers == Fields(SelectSeq(datagram.rows, LAMBDA row : row # Blank))
      st == header(headers, "st")
  IN  IF \/ datagram.first # "M-SEARCH" \/ st = ""
         \/ header(headers, "man") # "ssdp:discover"
         \/ header(headers, "mx") \notin {ToString(n) : n \in 0..9}
      THEN "none"
      ELSE IF st = "ssdp:all" THEN MEDIA_RENDERER
      ELSE IF st \in {"upnp:rootdevice", MEDIA_RENDERER} THEN st ELSE "none"

searchResponsePacket(target, location, udn) ==
  Datagram("200", <<Row("cache-control", "max-age"), Row("ext", ""), Row("location", location),
                    Row("server", "emulator"), Row("st", target), Row("usn", udn \o target), Blank>>)

answerSearches(datagram, location, udn) ==
  IF searchTargetOf(datagram) = "none" THEN <<>>
  ELSE <<searchResponsePacket(searchTargetOf(datagram), location, udn)>>

-----------------------------------------------------------------------------
(***************************************************************************)
(* Description.ts: a device has a name, services and devices of its own;   *)
(* "" stands for an element that is missing or empty.  A control URL is    *)
(* made absolute against URLBase, or the place the description came from;  *)
(* "unresolvable" is what URL throws on.                                   *)
(***************************************************************************)
Url(base, relative) == [base |-> base, relative |-> relative]
NoUrl == Url("", "")

toService(service, base) ==
  IF service.type = "" \/ service.control \in {"", "unresolvable"} \/ base = "unresolvable"
  THEN NoUrl ELSE Url(base, service.control)

(* The version of a service is required and then ignored.                  *)
findService(device, base, name) ==
  LET usable == SelectSeq(device.services,
                          LAMBDA s : s.type = name /\ s.versioned /\ toService(s, base) # NoUrl)
  IN  IF usable = <<>> THEN NoUrl ELSE toService(usable[1], base)

(* The root first, and what it embeds after it, depth first.               *)
RECURSIVE flatten(_)
flatten(device) ==
  <<device>> \o FlattenSeq([i \in DOMAIN device.devices |-> flatten(device.devices[i])])

rendererFrom(device, base, rootName) ==
  LET name == IF device.name = "" THEN rootName ELSE device.name
      avTransport == findService(device, base, "AVTransport")
  IN  IF name = "" \/ avTransport = NoUrl THEN <<>>
      ELSE << [friendlyName |-> name, avTransport |-> avTransport,
               renderingControl |-> findService(device, base, "RenderingControl")] >>

parseRenderer(document, location) ==
  LET base    == IF document.urlBase = "" THEN location ELSE document.urlBase
      devices == FlattenSeq([i \in DOMAIN document.devices |-> flatten(document.devices[i])])
      rootName == IF devices = <<>> THEN "" ELSE devices[1].name
      found   == SelectSeq([i \in DOMAIN devices |-> rendererFrom(devices[i], base, rootName)],
                           LAMBDA r : r # <<>>)
  IN  IF document.wellFormed /\ found # <<>> THEN found[1] ELSE <<>>

==============================================================================
