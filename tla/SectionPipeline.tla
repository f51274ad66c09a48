---------------------------- MODULE SectionPipeline ----------------------------
(***************************************************************************)
(* What becomes of one section whose bytes a Framer has in front of it     *)
(* (psi/mod.rs, demultiplex.rs): the checks of its header, of its CRC, and *)
(* of the processor for its table, and the slice between header and CRC    *)
(* that is handed to the code that reads the table's entries.  Each check  *)
(* may report an error (error.rs) and end the matter; later ones rely on   *)
(* what earlier ones let pass.                                             *)
(***************************************************************************)
EXTENDS Integers, Sequences

CONSTANTS
  SectionLengths,  (* the values of section_length                         *)
  InfoLengths      (* the values of a PMT's program_info_length            *)

(* Numbers of twelve bits.                                                 *)
Lengths12 == 0..4095

ASSUME LengthAssumption ==
  SectionLengths \subseteq Lengths12 /\ InfoLengths \subseteq Lengths12

VARIABLES
  section,   (* the kind of filter it is for, its header, whether its CRC  *)
             (* fits, and what a PMT gives as program_info_length          *)
  stage,     (* the check that comes next, or what the section came to     *)
  errors,    (* what was reported                                          *)
  body       (* the slice handed on, as the offsets from and to            *)

pipelineVars == <<section, stage, errors, body>>

COMMON_SIZE == 3         (* SectionCommonHeader::SIZE                      *)
SYNTAX_SIZE == 5         (* TableSyntaxHeader::SIZE                        *)
CRC_SIZE == 4
SECTION_LIMIT == 4093
SECTION_LENGTH_LIMIT == 1021
PMT_HEADER == 4

(* The length of the slice `data': the framer has collected all of it.     *)
DataLen == COMMON_SIZE + section.length
BodyStart == COMMON_SIZE + SYNTAX_SIZE
BodyEnd == DataLen - CRC_SIZE

(* A DemuxError, with the number it complains of and the one demanded.     *)
Error(what, actual, bound) == [what |-> what, actual |-> actual, bound |-> bound]

Outcome(next, reported) ==
  /\ stage' = next
  /\ errors' = errors \o reported
  /\ UNCHANGED section

Pass(next) == Outcome(next, << >>) /\ UNCHANGED body
Refuse(error) == Outcome("refused", <<error>>) /\ UNCHANGED body

HandOn(from, to) == Outcome("handed on", << >>) /\ body' = [from |-> from, to |-> to]

-------------------------------------------------------------------------------
(* SectionSyntaxMode and CompactSyntaxMode: validate_header(), and what    *)
(* deliver_section() slices off.                                           *)

SyntaxFits == section.syntax = (section.kind # "compact")

HeaderRefused ==
  /\ stage = "header"
  /\ \/ ~SyntaxFits /\ Refuse(Error("UnexpectedSectionSyntaxIndicator", 1, 0))
     \/ /\ SyntaxFits /\ section.length > SECTION_LIMIT
        /\ Refuse(Error("PsiSectionTooLarge", section.length, SECTION_LIMIT))
     \/ /\ SyntaxFits /\ section.kind # "compact" /\ section.length < SYNTAX_SIZE
        /\ Refuse(Error("SectionDataTooShort", COMMON_SIZE + section.length,
                        COMMON_SIZE + SYNTAX_SIZE))

HeaderValid ==
  /\ stage = "header" /\ SyntaxFits /\ section.length <= SECTION_LIMIT
  /\ \/ section.kind = "compact" /\ HandOn(0, DataLen)
     \/ section.kind # "compact" /\ section.length >= SYNTAX_SIZE /\ Pass("crc")

-------------------------------------------------------------------------------
(* CrcCheckWholeSectionSyntaxPayloadParser::section()                      *)

(* Mutant: the size of the CRC is left out.                                *)
LeastForHeaders == COMMON_SIZE + SYNTAX_SIZE

LeastForCrc == COMMON_SIZE + SYNTAX_SIZE + CRC_SIZE

CheckCrc ==
  /\ stage = "crc"
  /\ \/ /\ ~section.syntax   (* assert!(section_syntax_indicator)          *)
        /\ Pass("panic")
     \/ /\ section.syntax /\ DataLen < LeastForCrc
        /\ Refuse(Error("SectionTooSmallForCrc", DataLen, LeastForCrc))
     \/ /\ section.syntax /\ DataLen >= LeastForCrc /\ ~section.intact
        /\ Refuse(Error("CrcCheckFailed", 0, 1))
     \/ /\ section.syntax /\ DataLen >= LeastForCrc /\ section.intact
        /\ Pass("processor")

-------------------------------------------------------------------------------
(* section() and new_table() of the three processors.                      *)

TableId == [pat |-> 0, pmt |-> 2, tsdt |-> 3]

TooLarge == section.length > SECTION_LENGTH_LIMIT
WrongId == section.table_id # TableId[section.kind]
(* data[start..end]                                                        *)
CannotSlice == BodyStart > BodyEnd \/ BodyEnd > DataLen

RefuseTooLarge ==
  Refuse(Error("SectionTooLarge", section.length, SECTION_LENGTH_LIMIT))
RefuseId == Refuse(Error("InvalidTableId", section.table_id, TableId[section.kind]))

PatSection ==
  /\ stage = "processor" /\ section.kind = "pat"
  /\ \/ TooLarge /\ RefuseTooLarge
     \/ ~TooLarge /\ CannotSlice /\ Pass("panic")
     \/ ~TooLarge /\ ~CannotSlice /\ WrongId /\ RefuseId
     \/ ~TooLarge /\ ~CannotSlice /\ ~WrongId /\ HandOn(BodyStart, BodyEnd)

(* The table_id is looked at before the length.                            *)
TsdtSection ==
  /\ stage = "processor" /\ section.kind = "tsdt"
  /\ \/ WrongId /\ RefuseId
     \/ ~WrongId /\ TooLarge /\ RefuseTooLarge
     \/ ~WrongId /\ ~TooLarge /\ CannotSlice /\ Pass("panic")
     \/ ~WrongId /\ ~TooLarge /\ ~CannotSlice /\ HandOn(BodyStart, BodyEnd)

(* Mutant: streams are taken to start after program_info_length bytes.     *)
HeaderNotSkipped(info) == info

(* Where PmtSection::streams() starts, in its data.                        *)
DescriptorEnd(info) == PMT_HEADER + info

(* PmtSection::from_bytes() comes before the look at the table_id; what is *)
(* handed on are the streams.                                              *)
PmtSection ==
  LET size == BodyEnd - BodyStart IN
  /\ stage = "processor" /\ section.kind = "pmt"
  /\ \/ TooLarge /\ RefuseTooLarge
     \/ ~TooLarge /\ CannotSlice /\ Pass("panic")
     \/ /\ ~TooLarge /\ ~CannotSlice /\ size < PMT_HEADER
        /\ Refuse(Error("PmtParseError", size, PMT_HEADER))
     \/ /\ ~TooLarge /\ ~CannotSlice /\ size >= PMT_HEADER
        /\ \/ /\ size < DescriptorEnd(section.info)
              /\ Refuse(Error("PmtParseError", size, DescriptorEnd(section.info)))
           \/ size >= DescriptorEnd(section.info) /\ WrongId /\ RefuseId
           \/ /\ size >= DescriptorEnd(section.info) /\ ~WrongId
              /\ HandOn(BodyStart + DescriptorEnd(section.info), BodyEnd)

-------------------------------------------------------------------------------
NoBody == [from |-> 0, to |-> 0]

Sections ==
  [kind : {"pat", "pmt", "tsdt", "compact"}, table_id : {0, 2, 3, 255},
   syntax : BOOLEAN, length : SectionLengths, intact : BOOLEAN, info : InfoLengths]

PipelineInit ==
  /\ section \in Sections
  /\ stage = "header"
  /\ errors = << >>
  /\ body = NoBody

PipelineNext ==
  HeaderRefused \/ HeaderValid \/ CheckCrc \/ PatSection \/ TsdtSection \/ PmtSection

PipelineSpec == PipelineInit /\ [][PipelineNext]_pipelineVars

(* An error is true: what is reported as too short is shorter, and what is *)
(* reported as too large is larger, than what the error says it should be. *)
ErrorIsTrue(error) ==
  CASE error.what \in {"PsiSectionTooLarge", "SectionTooLarge"} ->
         error.actual > error.bound /\ error.actual = section.length
    [] error.what \in {"SectionDataTooShort", "SectionTooSmallForCrc", "PmtParseError"} ->
         error.actual < error.bound /\ error.actual <= DataLen
    [] OTHER -> error.actual # error.bound

(* A section is either handed on or refused with one error, a true one;    *)
(* never both.  Nothing on the way slices out of bounds, although only the *)
(* CRC check knows that there are four bytes to take off.                  *)
TrulyJudged ==
  /\ stage # "panic"
  /\ stage = "refused" <=> Len(errors) = 1
  /\ Len(errors) <= 1
  /\ \A n \in DOMAIN errors : ErrorIsTrue(errors[n])

(* Every section comes to something: no check leaves a case open.          *)
RefusedOrHandedOn ==
  TrulyJudged /\ (stage \in {"refused", "handed on"} \/ ENABLED PipelineNext)

(* What is handed on is the table and nothing else: no byte of the headers *)
(* before it or the CRC after it, of a section that was intact, had the    *)
(* right table_id and kept to the limit of its table.                      *)
OnlyTheTableIsRead ==
  stage = "handed on" /\ section.kind # "compact" =>
    /\ section.intact /\ section.table_id = TableId[section.kind]
    /\ DataLen <= 1024
    /\ COMMON_SIZE + SYNTAX_SIZE + (IF section.kind = "pmt" THEN PMT_HEADER ELSE 0)
         <= body.from
    /\ body.from <= body.to
    /\ body.to = DataLen - CRC_SIZE
=================================================================================
