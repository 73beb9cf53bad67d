------------------------------- MODULE DnsWire -------------------------------
(***************************************************************************)
(* The DNS wire format (dns/src/wire.ts) and the PTR names (dns/src/       *)
(* util.ts).  A datagram is a sequence of cells <<tag, value>>: the header,*)
(* a label with its length byte, the zero byte that ends a name, the fixed *)
(* fields after a name, the data of a record.  A name is the sequence of   *)
(* labels between its dots, so "a." has an empty second label.  Fields are *)
(* read at an offset, and one that lies elsewhere makes the parser throw.  *)
(***************************************************************************)
EXTENDS Integers, Sequences, SequencesExt

CONSTANT Error  \* the parser threw

RecordTypes == {"A", "AAAA", "PTR", "TXT"}  \* the types parseResourceRecord knows

Zero == <<"zero", 0>>

-----------------------------------------------------------------------------
(* Names *)

\* An empty label's length byte is the zero byte; so is the root name's only byte.
SerializeName(name) ==
  [i \in 1 .. (IF name = <<"">> THEN 0 ELSE Len(name)) |->
     IF name[i] = "" THEN Zero ELSE <<"label", name[i]>>] \o <<Zero>>

NameAt(cells, offset, end) ==
  [name |-> [i \in 1 .. end - offset |-> cells[offset + i - 1][2]], offset |-> end + 1]

\* Labels up to the first zero byte; other cells cannot be told from labels and
\* lead to an error further on.
ParseName(cells, offset) ==
  LET end == CHOOSE e \in offset .. Len(cells) + 1 :
               /\ e = Len(cells) + 1 \/ cells[e] = Zero
               /\ \A i \in offset .. e - 1 : cells[i] # Zero
  IN NameAt(cells, offset, end)

\* Names of addresses for reverse lookups and back.
IpToPtrName(ip) ==
  Reverse(ip.parts) \o <<IF ip.version = 4 THEN "in-addr" ELSE "ip6", "arpa">>

PtrNameToIP(name) ==
  LET parts == SelectSeq(Reverse(name), LAMBDA part : part # "")
  IN IF Len(parts) < 2 \/ parts[1] # "arpa" \/ parts[2] \notin {"in-addr", "ip6"}
       THEN Error
       ELSE [version |-> IF parts[2] = "in-addr" THEN 4 ELSE 6,
             parts |-> SubSeq(parts, 3, Len(parts))]

-----------------------------------------------------------------------------
(* Questions and records *)

SerializeQuestion(q) == SerializeName(q.name) \o << <<"fixed", q.type>> >>

At(cells, offset, tag) == offset <= Len(cells) /\ cells[offset][1] = tag

ParseQuestion(cells, offset) ==
  LET n == ParseName(cells, offset)
  IN IF At(cells, n.offset, "fixed")
       THEN [item |-> [name |-> n.name, type |-> cells[n.offset][2]], offset |-> n.offset + 1]
       ELSE Error

\* The data is an address, a text, or for PTR a name.
SerializeResourceData(r) ==
  IF r.type = "PTR" THEN SerializeName(r.data) ELSE << <<"data", r.data>> >>

SerializeResourceRecord(r) ==
  SerializeName(r.name) \o << <<"fixed", r.type>> >> \o SerializeResourceData(r)

\* The data of a PTR record ends where its name does, not at its length.
ParseResourceRecord(cells, offset) ==
  LET n == ParseName(cells, offset)
      known == At(cells, n.offset, "fixed") /\ cells[n.offset][2] \in RecordTypes
      rd == n.offset + 1
      ptr == ParseName(cells, rd)
      Record(data, next) ==
        [item |-> [name |-> n.name, type |-> cells[n.offset][2], data |-> data],
         offset |-> next]
  IN IF ~known THEN Error
     ELSE IF cells[n.offset][2] = "PTR" THEN Record(ptr.name, ptr.offset)
     ELSE IF At(cells, rd, "data") THEN Record(cells[rd][2], rd + 1) ELSE Error

-----------------------------------------------------------------------------
(* Messages: [id, response, rcode, questions, answers]; the other sections *)
(* are always empty, the other flags are copied.                           *)

SerializeHeader(m) ==
  << <<"header", [id |-> m.id, response |-> m.response, rcode |-> m.rcode,
                  questionCount |-> Len(m.questions), answerCount |-> Len(m.answers)]>> >>

SerializeDnsMessage(m) ==
  LET questions == FlattenSeq([i \in DOMAIN m.questions |-> SerializeQuestion(m.questions[i])])
      answers == FlattenSeq([i \in DOMAIN m.answers |-> SerializeResourceRecord(m.answers[i])])
  IN SerializeHeader(m) \o questions \o answers

\* A section of count items: one after another from where the last one ended.
ParseSection(Parse(_, _), cells, count, from) ==
  LET step[n \in 0 .. count] ==
        IF n = 0 THEN [items |-> <<>>, offset |-> from]
        ELSE IF step[n - 1] = Error THEN Error
        ELSE LET one == Parse(cells, step[n - 1].offset)
             IN IF one = Error THEN Error
                ELSE [items |-> Append(step[n - 1].items, one.item), offset |-> one.offset]
  IN step[count]

ParseDnsMessage(cells) ==
  IF ~At(cells, 1, "header") THEN Error
  ELSE LET h == cells[1][2]
           questions == ParseSection(ParseQuestion, cells, h.questionCount, 2)
           answers == IF questions = Error THEN Error
                      ELSE ParseSection(ParseResourceRecord, cells, h.answerCount,
                                        questions.offset)
       IN IF answers = Error THEN Error
          ELSE [id |-> h.id, response |-> h.response, rcode |-> h.rcode,
                questions |-> questions.items, answers |-> answers.items]
=============================================================================
