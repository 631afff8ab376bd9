--------------------------------- MODULE Mdns --------------------------------
(***************************************************************************)
(* Browsing for Cast and AirPlay devices (packages/platform/src/Mdns.ts)   *)
(* and the answers to it (emulator/src/Advertise.ts, advertiseAirPlay).    *)
(*                                                                         *)
(* A message is a list of cells: a label, the end of a name, a pointer to  *)
(* an earlier cell, a record's fixed part, and its data.  What a cell      *)
(* weighs in octets is left out, which cell follows which is not.          *)
(***************************************************************************)
EXTENDS Integers, SequencesExt

MaxDepth == 64

Label(text)        == [k |-> "label", text |-> text]
NameEnd            == [k |-> "end"]
Pointer(to)        == [k |-> "pointer", to |-> to]
Asked              == [k |-> "asked"]               \* a question's type and class
Fixed(type, length) == [k |-> "head", type |-> type, length |-> length]
PortCell(port)     == [k |-> "port", port |-> port]
TextCell(key, value) == [k |-> "text", key |-> key, value |-> value]
Address(ip)        == [k |-> "address", ip |-> ip]

encodeName(labels) == [i \in DOMAIN labels |-> Label(labels[i])] \o <<NameEnd>>

Message(response, questions, records, body) ==
  [header |-> TRUE, response |-> response, questions |-> questions, records |-> records, body |-> body]

queryFor(service) == Message(FALSE, 1, 0, encodeName(service) \o <<Asked>>)

-----------------------------------------------------------------------------
(***************************************************************************)
(* A name and the cell just past it, which is not where a pointer led.     *)
(* past is 0 until the first pointer; a name that points to itself ends at *)
(* the depth.                                                              *)
(***************************************************************************)
RECURSIVE Following(_, _, _, _, _)
Following(buf, offset, labels, past, depth) ==
  IF depth > MaxDepth \/ offset \notin DOMAIN buf \/ buf[offset].k \notin {"label", "pointer"}
  THEN [name |-> labels, next |-> IF past # 0 THEN past ELSE offset + 1]
  ELSE IF buf[offset].k = "pointer"
       THEN Following(buf, buf[offset].to, labels,
                      IF past # 0 THEN past ELSE offset + 1, depth + 1)
       ELSE Following(buf, offset + 1, Append(labels, buf[offset].text), past, depth + 1)

readName(buf, offset) == Following(buf, offset, <<>>, 0, 0)

RECURSIVE readRecords(_, _, _, _)
readRecords(buf, offset, remaining, acc) ==
  LET owner == readName(buf, offset)
      at    == owner.next
  IN  IF \/ remaining = 0 \/ at \notin DOMAIN buf
         \/ at + buf[at].length > Len(buf)
      THEN acc
      ELSE readRecords(buf, at + buf[at].length + 1, remaining - 1,
                       Append(acc, [name |-> owner.name, type |-> buf[at].type, start |-> at + 1,
                                    data |-> SubSeq(buf, at + 1, at + buf[at].length)]))

RECURSIVE skipQuestions(_, _, _)
skipQuestions(buf, offset, remaining) ==
  IF remaining = 0 THEN offset
  ELSE skipQuestions(buf, readName(buf, offset).next + 1, remaining - 1)

(* What is too short for a header is not for us.                           *)
parseMessage(message) ==
  IF ~message.header THEN <<>>
  ELSE readRecords(message.body, skipQuestions(message.body, 1, message.questions),
                   message.records, <<>>)

(* A later entry of a key replaces an earlier one.                         *)
parseTxt(data) ==
  FoldLeft(LAMBDA txt, cell : [key \in DOMAIN txt \cup {cell.key} |->
                                 IF key = cell.key THEN cell.value ELSE txt[key]],
           <<>>, data)

-----------------------------------------------------------------------------
NoSweep == [instances |-> <<>>, addresses |-> <<>>, dead |-> FALSE]

emptyInstance == [host |-> <<>>, port |-> -1, txt |-> <<>>]

With(map, key, value) ==
  [k \in DOMAIN map \cup {key} |-> IF k = key THEN value ELSE map[k]]

(***************************************************************************)
(* One record into the sweep.  An SRV whose data is too short for a port   *)
(* throws: the fiber that reads the packets ends, and says nothing.        *)
(***************************************************************************)
absorb(sweep, message, record, service) ==
  LET existing == IF record.name \in DOMAIN sweep.instances
                  THEN sweep.instances[record.name] ELSE emptyInstance
  IN  CASE sweep.dead -> sweep
        [] ~sweep.dead /\ record.type = "A" /\ Len(record.data) = 1 ->
             [sweep EXCEPT !.addresses = With(@, record.name, record.data[1].ip)]
        [] ~sweep.dead /\ record.type = "SRV" /\ IsSuffix(service, record.name) ->
             IF record.data = <<>> THEN [sweep EXCEPT !.dead = TRUE]
             ELSE [sweep EXCEPT !.instances =
                     With(@, record.name,
                          [existing EXCEPT !.port = record.data[1].port,
                                           !.host = readName(message.body, record.start + 1).name])]
        [] ~sweep.dead /\ record.type = "TXT" /\ IsSuffix(service, record.name) ->
             [sweep EXCEPT !.instances =
                With(@, record.name, [existing EXCEPT !.txt = parseTxt(record.data)])]
        [] OTHER -> sweep

(* A message is absorbed whole or, when one of its records throws, not at  *)
(* all: Ref.update keeps what was there.                                   *)
Absorbed(sweep, message, service) ==
  LET after == FoldLeft(LAMBDA s, record : absorb(s, message, record, service),
                        sweep, parseMessage(message))
  IN  IF after.dead THEN [sweep EXCEPT !.dead = TRUE] ELSE after

Sweep(packets, service) ==
  FoldLeft(LAMBDA sweep, message : Absorbed(sweep, message, service), NoSweep, packets)

txtGet(txt, key) == IF key \in DOMAIN txt THEN txt[key] ELSE "undefined"

(* fn, or the first label of the instance.                                 *)
NameOf(instance, txt) ==
  IF "fn" \in DOMAIN txt THEN txt["fn"] ELSE IF instance = <<>> THEN "" ELSE instance[1]

(* What else is read of a device, and by which key.                        *)
castDetails == [model |-> "md", status |-> "rs", id |-> "id"]
airPlayDetails == [model |-> "model", features |-> "features", flags |-> "flags", deviceId |-> "deviceid"]

Usable(sweep) ==
  {name \in DOMAIN sweep.instances :
     sweep.instances[name].host # <<>> /\ sweep.instances[name].host \in DOMAIN sweep.addresses}

(* Port.make throws on 0, and takes the whole answer with it.              *)
DevicesFrom(sweep, details) ==
  IF \E name \in Usable(sweep) : sweep.instances[name].port = 0
  THEN [error |-> "defect", devices |-> {}]
  ELSE [error |-> "none",
        devices |-> { [name |-> NameOf(name, sweep.instances[name].txt),
                       ip   |-> sweep.addresses[sweep.instances[name].host],
                       port |-> sweep.instances[name].port,
                       details |-> [d \in DOMAIN details |->
                                     txtGet(sweep.instances[name].txt, details[d])]] : name \in Usable(sweep) }]

toDevices(sweep) == DevicesFrom(sweep, castDetails)
toAirPlayDevices(sweep) == DevicesFrom(sweep, airPlayDetails)

(* The packets of one window, from a sweep that starts empty.              *)
discover(packets, service) == toDevices(Sweep(packets, service))
discoverAirPlay(packets, service) == toAirPlayDevices(Sweep(packets, service))

(* windows: what arrives in each attempt, at least one of them.            *)
Retried(sweeps) ==
  LET done == {i \in DOMAIN sweeps : sweeps[i].error # "none" \/ sweeps[i].devices # {}}
  IN  IF done = {} THEN Last(sweeps) ELSE sweeps[CHOOSE i \in done : \A j \in done : i <= j]
discoverWithRetry(windows, service) ==
  Retried([i \in DOMAIN windows |-> discover(windows[i], service)])
discoverAirPlayWithRetry(windows, service) ==
  Retried([i \in DOMAIN windows |-> discoverAirPlay(windows[i], service)])

-----------------------------------------------------------------------------
(* The emulated devices: one answer with all four records, written in full.*)
record(name, type, data) == encodeName(name) \o <<Fixed(type, Len(data))>> \o data

Answer(advertisement, txt) ==
  LET instance == <<advertisement.friendlyName>> \o advertisement.service
      host     == <<advertisement.friendlyName, "local">>
  IN  Message(TRUE, 0, 4,
              record(advertisement.service, "PTR", encodeName(instance))
              \o record(instance, "SRV", <<PortCell(advertisement.port)>> \o encodeName(host))
              \o record(instance, "TXT", txt)
              \o record(host, "A", <<Address(advertisement.address)>>))

answer(advertisement) ==
  Answer(advertisement, <<TextCell("fn", advertisement.friendlyName), TextCell("md", advertisement.model),
                          TextCell("id", "emulated"), TextCell("ve", "05"), TextCell("rs", "")>>)

answerAirPlay(advertisement) ==
  Answer(advertisement, <<TextCell("fn", advertisement.friendlyName), TextCell("features", "video"),
                          TextCell("model", advertisement.model), TextCell("deviceid", "mac"),
                          TextCell("flags", "4")>>)

(* The names asked for; a pointer ends a name, and is not followed.        *)
RECURSIVE QuestionName(_, _, _)
QuestionName(body, offset, labels) ==
  IF offset \in DOMAIN body /\ body[offset].k = "label"
  THEN QuestionName(body, offset + 1, Append(labels, body[offset].text))
  ELSE [name |-> labels, next |-> offset + 1]
readQuestionName(body, offset) == QuestionName(body, offset, <<>>)

RECURSIVE Questions(_, _, _, _)
Questions(message, index, offset, found) ==
  LET question == readQuestionName(message.body, offset)
  IN  IF index >= message.questions \/ offset > Len(message.body) THEN found
      ELSE Questions(message, index + 1, question.next + 1, found \cup {question.name})
questionsIn(message) == IF message.header THEN Questions(message, 0, 1, {}) ELSE {}

(* serve and serveAirPlay answer who asks for their service; the other     *)
(* emulated AirPlay device, on this host, answers every query.             *)
serve(advertisement, packet) ==
  IF advertisement.service \in questionsIn(packet) THEN <<answer(advertisement)>> ELSE <<>>
serveAirPlay(advertisement, packet) ==
  IF advertisement.service \in questionsIn(packet) THEN <<answerAirPlay(advertisement)>> ELSE <<>>
advertiseAirPlay(name, port, requirePairing, packet) ==
  IF ~packet.header \/ packet.response THEN <<>>
  ELSE << Answer([friendlyName |-> name, service |-> <<"_airplay", "_tcp", "local">>, port |-> port,
                  address |-> "127.0.0.1"],
                 <<TextCell("fn", name), TextCell("features", "video"), TextCell("model", "AppleTV3,2"),
                   TextCell("deviceid", "mac"), TextCell("flags", IF requirePairing THEN "4" ELSE "0")>>) >>

==============================================================================
