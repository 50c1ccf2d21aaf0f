-------------------------------- MODULE ScipLine --------------------------------
(***************************************************************************)
(* The text reply to PP: TcpClient::asyncReadLine, which reads into        *)
(* readline_buffer_ up to an empty line, and SCIPWorker and PPWorker,      *)
(* which make numbers of it.                                               *)
(*                                                                         *)
(* Nothing ever clears the buffer.  What came of a text before its link    *)
(* was lost stays in front of the text of the next connection, whose first *)
(* line continues the line that was cut.                                   *)
(*                                                                         *)
(* A line is the field that its name tells and what findSubstring() and    *)
(* stoi() can make of it: "whole" has the number of the field, "short" a   *)
(* part of its digits, "bare" something that is no number, and "plain" has *)
(* no colon.                                                               *)
(***************************************************************************)
EXTENDS Naturals, Sequences

CONSTANT MaxCuts   \* bound: texts that are cut

ASSUME CutsAssumption == MaxCuts \in Nat

\* PPReplyLineIndex, as far as the code looks at it.
SENSOR_MODEL == 2
MIN_DISTANCE == 3
RPM          == 9
NR_LINES     == 10
Decoded      == MIN_DISTANCE..RPM

Line(field, text) == [field |-> field, text |-> text]
Blank  == Line(NR_LINES, "plain")
NoLine == Line(NR_LINES, "bare")
Lines  == [field : 0..NR_LINES, text : {"whole", "short", "bare", "plain"}]

\* The model of the sensor does not begin with a digit.
LineOf(field) ==
  Line(field, IF field < SENSOR_MODEL THEN "plain"
              ELSE IF field = SENSOR_MODEL THEN "bare" ELSE "whole")

Text    == [i \in 1..NR_LINES |-> LineOf(i - 1)] \o <<Blank>>
Refusal == <<LineOf(0), LineOf(1), Blank>>

\* What may have come of a line when its link is lost.
Beginnings(field) ==
  {Line(field, text) : text \in
     IF field < SENSOR_MODEL THEN {"plain"}
     ELSE IF field = SENSOR_MODEL THEN {"plain", "bare"}
     ELSE {"plain", "bare", "short", "whole"}}

VARIABLES
  readline_buffer,  \* its lines
  rest,             \* the line at its end that was cut
  cuts,
  result,           \* of the last command: "none", "read", "failed" or "thrown"
  reply,            \* the lines whose numbers it has
  failures          \* commands that failed though their text was sent whole

textVars == <<readline_buffer, rest, cuts, result, reply, failures>>

TypeOKText ==
  /\ readline_buffer \in Seq(Lines) /\ rest \in Lines
  /\ cuts \in 0..MaxCuts /\ failures \in Nat
  /\ result \in {"none", "read", "failed", "thrown"}
  /\ reply \in [Decoded -> Lines]

NoReply == [field \in Decoded |-> Blank]

TextInit ==
  /\ readline_buffer = <<>> /\ rest = NoLine /\ cuts = 0
  /\ result = "none" /\ reply = NoReply /\ failures = 0

----------------------------------------------------------------------------
\* A text comes after what the buffer holds.
Appended(text) ==
  readline_buffer \o (IF rest = NoLine \/ text = <<>> THEN text ELSE <<rest>> \o Tail(text))

\* The buffer holds an empty line that ends another.
Delimited == \E i \in 2..Len(readline_buffer) : readline_buffer[i] = Blank

\* raw_reply: lines that there are not stay empty.
RawReply(lines) ==
  [field \in Decoded |-> IF field < Len(lines) THEN lines[field + 1] ELSE Blank]

HasNumber(line) == line.text \in {"whole", "short"}

\* Mutant: what is no number is passed over, and only the last field decides.
DecodeLast(raw) == IF HasNumber(raw[RPM]) THEN "read" ELSE "failed"

\* PPWorker::decode: in order, up to the first that fails; stoi() may throw.
Decode(raw) ==
  IF \A field \in Decoded : HasNumber(raw[field]) THEN "read"
  ELSE LET first_bad == CHOOSE field \in Decoded :
                          /\ ~HasNumber(raw[field])
                          /\ \A other \in MIN_DISTANCE..(field - 1) : HasNumber(raw[other])
       IN IF raw[first_bad].text = "bare" THEN "thrown" ELSE "failed"

\* Mutant: the lines of a reply that fails are put back.
RemainingUnread(lines) ==
  IF Decode(RawReply(lines)) = "failed" THEN lines ELSE SubSeq(lines, NR_LINES + 2, Len(lines))

\* std::getline runs once more before nr_lines_read is looked at.
Remaining(lines) == SubSeq(lines, NR_LINES + 2, Len(lines))

\* The handler of asyncReadLine().
HandleText(lines) ==
  /\ result # "thrown"
  /\ readline_buffer' = Remaining(lines) /\ rest' = NoLine
  /\ result' = Decode(RawReply(lines))
  /\ reply' = IF result' = "read" THEN RawReply(lines) ELSE NoReply
  /\ UNCHANGED cuts

Counted == failures' = IF result' = "failed" THEN failures + 1 ELSE 0

\* async_read_until is done at once; the sensor's text goes with its connection.
StaleText == Delimited /\ HandleText(readline_buffer) /\ Counted

WholeText == ~Delimited /\ HandleText(Appended(Text)) /\ Counted

\* The sensor answers with a status other than 00, and no more lines.
RefusedText == ~Delimited /\ HandleText(Appended(Refusal)) /\ failures' = 0

\* The link is lost, or given up, after some lines and a part of the next.
\* The handler comes with an error and leaves the bytes in the buffer.
CutText ==
  /\ ~Delimited /\ result # "thrown" /\ cuts < MaxCuts
  /\ \E n \in 0..NR_LINES :
       /\ readline_buffer' = Appended(SubSeq(Text, 1, n))
       /\ IF n = 0 /\ rest # NoLine THEN UNCHANGED rest
          ELSE rest' \in {NoLine} \cup (IF n < NR_LINES THEN Beginnings(n) ELSE {})
  /\ cuts' = cuts + 1 /\ result' = "failed" /\ reply' = NoReply /\ failures' = 0

TextNext == StaleText \/ WholeText \/ RefusedText \/ CutText

TextSpec == TextInit /\ [][TextNext]_textVars

----------------------------------------------------------------------------
(* Properties *)

\* "Decoded reply if success": however many texts were cut, and wherever, a
\* reply that is returned has the distances, the resolution and the steps of
\* this sensor, each in its own field; no line shifts into another's place.
\* The last field may be cut short by the seam of two texts.
FieldsAreTheSensors ==
  result = "read" =>
    /\ \A field \in MIN_DISTANCE..(RPM - 1) : reply[field] = LineOf(field)
    /\ reply[RPM].field = RPM

\* The buffer heals: once texts come whole again, no more of them are lost to
\* what is left in it than were cut, and one.
TextHeals == failures <= cuts + 1

=============================================================================
