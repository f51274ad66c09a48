---------------------------- MODULE SectionParsers ----------------------------
(***************************************************************************)
(* The two parsers that stand between a Framer and the code that           *)
(* interprets a table (psi/mod.rs): a DedupSectionSyntaxPayloadParser that *)
(* lets a section pass only if its version differs from the last one's,    *)
(* and inside it a CrcCheckWholeSectionSyntaxPayloadParser that lets it    *)
(* pass only if it is long enough to hold a CRC, and that fits.            *)
(***************************************************************************)
CONSTANT NoVersion   (* last_version: Option::None                         *)

VARIABLES
  last_version,      (* version of the last section Dedup let pass         *)
  verdict            (* what became of the last section: "parsed",         *)
                     (* "suppressed" or "rejected"; "-" if there is none   *)

parserVars == <<last_version, verdict>>

ParsersInit == last_version = NoVersion /\ verdict = "-"

(* Mutant: every section is parsed.                                        *)
ParseAlways(version, intact) ==
  /\ verdict' = IF intact THEN "parsed" ELSE "rejected"
  /\ last_version' = version

(* section() of Dedup, and of CrcCheck inside it.  `intact' is whether the *)
(* section is long enough and its CRC is right.                            *)
ParseSection(version, intact) ==
  \/ /\ last_version = version
     /\ verdict' = "suppressed"
     /\ UNCHANGED last_version
  \/ /\ last_version # version
     /\ verdict' = IF intact THEN "parsed" ELSE "rejected"
     /\ last_version' = version

ResetParsers == last_version' = NoVersion /\ verdict' = "-"

NoSection == verdict' = "-" /\ UNCHANGED last_version
=============================================================================
