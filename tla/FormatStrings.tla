----------------------------- MODULE FormatStrings -----------------------------
(***************************************************************************)
(* Format strings: what HNFSInstance, HNFormatString, HNFormatStringStore  *)
(* (a device's strings) and HNFormatStringCache (a management client's     *)
(* copies of them) compute, as operators on their data.                    *)
(*                                                                         *)
(* A text is a sequence of pieces; "%" is a printf conversion and Hole(i)  *)
(* the text {i-1} that stands for parameter i in a template.  A code is    *)
(* the CRC32 of a format string (Hash), and 0 is no code.                  *)
(***************************************************************************)
EXTENDS Naturals, Sequences, FiniteSets, SequencesExt

CONSTANTS
  Formats,  \* the format strings applications register
  Hash,     \* the code of each: calcCode
  Hole(_)   \* the text that stands for a parameter, one for every number

\* As many parameters as a format string has pieces, and their holes told apart.
ASSUME FormatAssumption ==
  /\ \A f \in Formats :
       /\ f \in Seq(STRING)
       /\ \A i \in DOMAIN f : Hole(i) \notin {"%", "std::out_of_range"}
       /\ \A i, j \in DOMAIN f : Hole(i) = Hole(j) => i = j
  /\ Hash \in [Formats -> Nat \ {0}]

FmtCodes == {Hash[f] : f \in Formats}

--------------------------------------------------------------------------------
(* HNFormatString *)

\* The places of the conversions, and how many of them come before place k.
Specs(f) == {k \in DOMAIN f : f[k] = "%"}
ParameterCnt(f) == Cardinality(Specs(f))
ParamIndex(f, k) == 1 + Cardinality({j \in Specs(f) : j < k})

\* What templates are made of.
Pieces == UNION {{f[k] : k \in DOMAIN f} \cup {Hole(i) : i \in 1 .. ParameterCnt(f)} :
                 f \in Formats}

\* Faulty variant: the holes are numbered in the order they are replaced, from the end.
TemplateStrReversed(f) ==
  [k \in DOMAIN f |->
     IF f[k] = "%" THEN Hole(1 + ParameterCnt(f) - ParamIndex(f, k)) ELSE f[k]]

\* validateFormat: each conversion becomes the hole of its parameter.
TemplateStr(f) ==
  [k \in DOMAIN f |-> IF f[k] = "%" THEN Hole(ParamIndex(f, k)) ELSE f[k]]

--------------------------------------------------------------------------------
(* HNFSInstance: a code and the parameters, formatted one by one *)

Cleared == [code |-> 0, params |-> <<>>]

SetParameters(f, args) == SubSeq(args, 1, ParameterCnt(f))

\* std::string::replace at npos raises std::out_of_range.
Thrown == <<"std::out_of_range">>

\* createResolvedString: parameter by parameter, the first text that looks
\* like its hole is replaced, in what the earlier parameters have left.
CreateResolvedString(template, params) ==
  LET Fill(s, hole, param) ==
        IF s = Thrown \/ ~ \E k \in DOMAIN s : s[k] = hole
        THEN Thrown
        ELSE LET pos == CHOOSE k \in DOMAIN s :
                          s[k] = hole /\ \A j \in 1 .. (k - 1) : s[j] # hole
             IN  SubSeq(s, 1, pos - 1) \o param \o SubSeq(s, pos + 1, Len(s))
      built[i \in 0 .. Len(params)] ==
        IF i = 0 THEN template ELSE Fill(built[i - 1], Hole(i), params[i])
  IN  built[Len(params)]

\* What createResolvedString is for: the text printf would have given.
Printf(f, args) ==
  FlattenSeq([k \in DOMAIN f |->
                IF f[k] = "%" THEN args[ParamIndex(f, k)] ELSE <<f[k]>>])

\* updateFromJSONObject: whichever of its branches each parameter takes, the
\* instance ends as the one sent, and has changed unless it was that before.
UpdateFromJSON(inst, js) == [inst EXCEPT !.code = js.code, !.params = js.params]

--------------------------------------------------------------------------------
(* HNFormatStringStore: the format strings by code *)

\* A code that is taken is returned as it is, whatever string it stands for.
RegisterFormatString(store, f) ==
  IF Hash[f] \in DOMAIN store THEN store
  ELSE [c \in DOMAIN store \cup {Hash[f]} |->
          IF c \in DOMAIN store THEN store[c] ELSE f]

FillInstance(store, code, args) ==
  IF code \in DOMAIN store
  THEN [code |-> code, params |-> SetParameters(store[code], args)]
  ELSE Cleared

\* The definitions sent to a client: of the codes it asks for, those known.
SelectFormatStrings(store, refs) ==
  [c \in refs \cap DOMAIN store |-> TemplateStr(store[c])]

AllFormatStrings(store) == SelectFormatStrings(store, DOMAIN store)

--------------------------------------------------------------------------------
(* HNFormatStringCache: records by code, with the device that reported the *)
(* code first and the template (<<>> until it is known), and the codes     *)
(* whose strings have to be fetched (m_needSrcUpdate).                     *)

EmptyCache == [strs |-> <<>>, need |-> {}]

\* reportFormatCode, for the codes of a report one by one: a code that is 0 or
\* has a record changes nothing, so that their order does not matter.
ReportFormatCodes(cache, dev, codes) ==
  LET new == codes \ ({0} \cup DOMAIN cache.strs)
  IN  [strs |-> [c \in DOMAIN cache.strs \cup new |->
                   IF c \in new THEN [dev |-> dev, template |-> <<>>]
                   ELSE cache.strs[c]],
       need |-> cache.need \cup new]

UncachedStrRefList(cache, dev) == {c \in cache.need : cache.strs[c].dev = dev}

UpdateStringDefinitions(cache, defs) ==
  [strs |-> [c \in DOMAIN cache.strs |->
               IF c \in DOMAIN defs
               THEN [cache.strs[c] EXCEPT !.template = defs[c]]
               ELSE cache.strs[c]],
   need |-> cache.need \ DOMAIN defs]

NotAvailable == <<"Format String not available">>

RenderInstance(cache, inst) ==
  IF inst.code = 0 THEN <<>>
  ELSE IF inst.code \notin DOMAIN cache.strs \/ cache.strs[inst.code].template = <<>>
  THEN NotAvailable
  ELSE CreateResolvedString(cache.strs[inst.code].template, inst.params)
================================================================================
