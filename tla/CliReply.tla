------------------------------ MODULE CliReply ------------------------------
(***************************************************************************)
(* The streamed reply of an agent CLI (cli_provider/mod.rs): the lines of  *)
(* its output become deltas of speech and boundaries of messages, and in   *)
(* the end one reply or one error.                                         *)
(*                                                                         *)
(* A CLI writes a message block by block, text or a call of a tool, with   *)
(* one record for each block (the records of a message share its id, when  *)
(* it has one) and, if it streams tokens, the deltas of a text before its  *)
(* record.  It may end, fall silent or break off anywhere.  A line is read *)
(* as it is written: the pipe keeps their order.                           *)
(***************************************************************************)
EXTENDS Naturals, Sequences, SequencesExt

CONSTANT CliConfigs    \* the configurations explored

ASSUME CliReplyAssumption ==
    \A c \in CliConfigs :
       /\ c.deltas \in BOOLEAN       \* the CLI writes token deltas
       /\ c.ids \in BOOLEAN          \* its records name their message
       /\ c.terminal \in BOOLEAN     \* prefers_terminal_text
       /\ c.script \in Seq(Seq({"text", "tool"}))   \* its messages and their blocks

VARIABLES
    cliLaw,     \* the configuration, fixed
    cli,        \* the child: its message, block and unit next, or ended
    parse,      \* the provider's state between two lines
    speech      \* what the stream has yielded

cliVars == <<cliLaw, cli, parse, speech>>

Nothing == [open |-> FALSE, of |-> 0, tool |-> FALSE, text |-> <<>>, deltas |-> <<>>]
Parts == 1..2                                  \* a text block, in two deltas
TextOf(k, b) == [j \in Parts |-> <<k, b, j>>]
Blocks(k) == cliLaw.script[k]
MessageText(k) == FlattenSeq([b \in DOMAIN Blocks(k) |-> IF Blocks(k)[b] = "text" THEN TextOf(k, b) ELSE <<>>])
CallsTool(k) == "tool" \in Range(Blocks(k))
Deltas == SelectSeq(speech, LAMBDA e : e[1] = "text")
HeardUnits == FlattenSeq([i \in DOMAIN Deltas |-> Deltas[i][2]])
Segments == SelectSeq(speech, LAMBDA e : e[1] = "segment")

CliTypeOK ==
    /\ cliLaw \in CliConfigs
    /\ cli.message \in Nat /\ cli.block \in Nat /\ cli.unit \in Nat /\ cli.result \in BOOLEAN
    /\ parse.at \in {"reads", "over"}
    /\ parse.open \in [open : BOOLEAN, of : Nat, tool : BOOLEAN, text : Seq(Nat \X Nat \X Nat),
                       deltas : Seq(Nat \X Nat \X Nat)]
    /\ parse.unassigned \in Seq(Nat \X Nat \X Nat)
    /\ parse.assembled \in Seq(Nat \X Nat \X Nat)
    /\ parse.terminal \in {"none", "reply", "flagged"}
    /\ \A i \in DOMAIN speech :
          IF speech[i][1] = "segment" THEN speech[i][2][1] \in BOOLEAN
          ELSE speech[i][1] \in {"text", "done", "error"} /\ speech[i][2] \in Seq(Nat \X Nat \X Nat)
    \* a delta is claimed by one record
    /\ IsInjective(parse.open.deltas \o parse.unassigned)

CliInit ==
    /\ cliLaw \in CliConfigs
    /\ cli = [message |-> 1, block |-> 1, unit |-> 1, result |-> FALSE]
    /\ parse = [at |-> "reads", open |-> Nothing, unassigned |-> <<>>, assembled |-> <<>>,
                terminal |-> "none", last |-> <<>>]
    /\ speech = <<>>

-----------------------------------------------------------------------------
(* Closing a message.                                                      *)

Includes(whole, part) == \E i \in 0..Len(whole) : IsPrefix(part, SubSeq(whole, i + 1, Len(whole)))

\* speech_not_yet_delta: of `text`, what was not yielded in `deltas`.
Unsaid(deltas, text) ==
    IF text = <<>> \/ deltas = text THEN <<>>
    ELSE IF IsPrefix(deltas, text) THEN SubSeq(text, Len(deltas) + 1, Len(text))
    ELSE IF Includes(deltas, text) THEN <<>> ELSE text

\* close_assistant_message: what is said before the boundary.
Closes(open) == IF open.open /\ ~open.tool THEN Unsaid(open.deltas, open.text) ELSE <<>>
Boundary(open) ==
    (IF Closes(open) = <<>> THEN <<>> ELSE <<<<"text", Closes(open)>>>>)
    \o (IF open.open THEN <<<<"segment", <<open.tool>>>>>> ELSE <<>>)

-----------------------------------------------------------------------------
(* The lines.                                                              *)

Writing == cli.message <= Len(cliLaw.script) /\ ~cli.result
AtBlock(kind) == parse.at = "reads" /\ Writing /\ Blocks(cli.message)[cli.block] = kind
NextBlock ==
    cli' = IF cli.block < Len(Blocks(cli.message))
           THEN [cli EXCEPT !.block = @ + 1, !.unit = 1]
           ELSE [cli EXCEPT !.message = @ + 1, !.block = 1, !.unit = 1]

\* A delta is yielded at once.
ReadDelta ==
    /\ AtBlock("text") /\ cliLaw.deltas /\ cli.unit \in Parts
    /\ LET unit == <<<<cli.message, cli.block, cli.unit>>>> IN
          /\ parse' = [parse EXCEPT !.assembled = @ \o unit, !.unassigned = @ \o unit]
          /\ speech' = Append(speech, <<"text", unit>>)
    /\ cli' = [cli EXCEPT !.unit = @ + 1]
    /\ UNCHANGED cliLaw

RecordText == IF Blocks(cli.message)[cli.block] = "text" THEN TextOf(cli.message, cli.block) ELSE <<>>
RecordTool == Blocks(cli.message)[cli.block] = "tool"
SameMessage == parse.open.open /\ cliLaw.ids /\ parse.open.of = cli.message

\* A record of the message that is open.
Extends ==
    /\ parse' = [parse EXCEPT !.open.tool = @ \/ RecordTool, !.open.text = @ \o RecordText,
                              !.open.deltas = @ \o parse.unassigned, !.unassigned = <<>>]
    /\ UNCHANGED speech

\* A record of another one closes it and takes the deltas since.
Opens ==
    /\ parse' = [parse EXCEPT !.open = [open |-> TRUE, of |-> cli.message, tool |-> RecordTool,
                                        text |-> RecordText, deltas |-> parse.unassigned],
                              !.assembled = @ \o Closes(parse.open), !.unassigned = <<>>]
    /\ speech' = speech \o Boundary(parse.open)

ReadRecord ==
    /\ parse.at = "reads" /\ Writing
    /\ AtBlock("text") /\ cliLaw.deltas => cli.unit \notin Parts
    /\ \/ SameMessage /\ Extends
       \/ ~SameMessage /\ Opens
    /\ NextBlock
    /\ UNCHANGED cliLaw

\* The deltas since the last record are the open message's.
Claimed == [parse.open EXCEPT !.deltas = @ \o parse.unassigned]

\* The result, with the text of the last message, or flagged as an error.
ReadResult(flagged) ==
    /\ parse.at = "reads" /\ ~cli.result
    /\ cli.message > Len(cliLaw.script) \/ flagged
    /\ cli' = [cli EXCEPT !.result = TRUE]
    /\ LET open == IF parse.open.open THEN Claimed ELSE Nothing IN
          /\ parse' = [parse EXCEPT !.open = Nothing, !.assembled = @ \o Closes(open),
                                    !.unassigned = IF parse.open.open THEN <<>> ELSE @,
                                    !.terminal = IF flagged THEN "flagged" ELSE "reply",
                                    !.last = MessageText(Len(cliLaw.script))]
          /\ speech' = speech \o Boundary(open)
    /\ UNCHANGED cliLaw

\* settle: the result's text or what was assembled, by the adapter.
Reply(assembled) ==
    IF parse.terminal = "reply" /\ parse.last # <<>> /\ (cliLaw.terminal \/ assembled = <<>>)
    THEN parse.last ELSE assembled
Outcome(assembled) ==
    IF parse.terminal = "flagged" \/ Reply(assembled) = <<>> THEN <<"error", <<>>>>
    ELSE <<"done", Reply(assembled)>>

\* Changed: a message still open at the end is left open.
OutputEnds_Open ==
    /\ parse.at = "reads"
    /\ parse' = [parse EXCEPT !.at = "over"]
    /\ speech' = Append(speech, Outcome(parse.assembled))
    /\ UNCHANGED <<cliLaw, cli>>

\* The output ends: after the result, or because the CLI died.  A message
\* still open closes before the reply is settled.
OutputEnds ==
    /\ parse.at = "reads"
    /\ LET open == IF parse.open.open THEN Claimed ELSE Nothing IN
          /\ parse' = [parse EXCEPT !.at = "over", !.open = Nothing]
          /\ speech' = speech \o Append(Boundary(open), Outcome(parse.assembled \o Closes(open)))
    /\ UNCHANGED <<cliLaw, cli>>

\* The idle bound passes, or a read fails: nothing more is said but that.
OutputFails ==
    /\ parse.at = "reads"
    /\ parse' = [parse EXCEPT !.at = "over", !.open = Nothing]
    /\ speech' = Append(speech, <<"error", <<>>>>)
    /\ UNCHANGED <<cliLaw, cli>>

CliNext ==
    \/ ReadDelta \/ ReadRecord \/ OutputEnds \/ OutputFails
    \/ \E flagged \in BOOLEAN : ReadResult(flagged)

CliSpec == CliInit /\ [][CliNext]_cliVars

-----------------------------------------------------------------------------
(* Properties.                                                             *)

IsDone == speech # <<>> /\ Last(speech)[1] = "done"

\* Nothing is spoken twice: the text of a record whose deltas were yielded,
\* in whole or across several records of its message, is not yielded again.
SpokenOnce == IsInjective(HeardUnits)

\* A turn that is answered has been spoken in whole, in order: every message
\* that calls no tool, with token deltas or without, though the CLI ended
\* without a result.
SpokenWhole ==
    IsDone =>
       LET owed == {u \in UNION {Range(MessageText(k)) : k \in 1..cli.message - 1} : ~CallsTool(u[1])}
       IN  /\ owed \subseteq Range(HeardUnits)
           /\ \A i, j \in DOMAIN HeardUnits :
                 i < j => HeardUnits[i][1] <= HeardUnits[j][1]

\* Each message has one boundary that says whether it called a tool, in the
\* order of the messages, when the CLI names them.
OneSegmentEach ==
    IsDone /\ cliLaw.ids /\ parse.terminal = "reply" =>
       Segments = [k \in DOMAIN cliLaw.script |-> <<"segment", <<CallsTool(k)>>>>]

\* What the turn stores is what was heard, for a CLI whose deltas are the
\* answer: assembled text has no more and no less.
ReplyIsHeard == IsDone /\ ~cliLaw.terminal /\ HeardUnits # <<>> => Last(speech)[2] = HeardUnits

\* What the stream of a CLI's output promises the turn, wherever its lines
\* end: what was spoken is whole, said once, bounded right and stored
\* (invoke_streaming, speech_not_yet_delta, settle).
CliReplyHolds == CliTypeOK /\ SpokenOnce /\ SpokenWhole /\ OneSegmentEach /\ ReplyIsHeard
=============================================================================
