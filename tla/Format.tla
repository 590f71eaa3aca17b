-------------------------------- MODULE Format --------------------------------
(***************************************************************************)
(* The formatter's library (lib/Fmt/Format.cpp, Config.cpp): format_buffer *)
(* takes a source apart, lays out its fragments and puts the text together *)
(* again; parse_config_file reads a configuration.  A TOML document is     *)
(* Malformed or a function from its keys to [int], [bool] or [str] values. *)
(***************************************************************************)
EXTENDS LayoutPlanner, Diff

BoolKeys == {"spaces_around_binary_ops", "spaces_inside_braces",
             "align_struct_members", "align_case_arrows"}

default_configuration ==
    [k \in BoolKeys |-> k # "spaces_inside_braces"]
    @@ ("indent" :> "Spaces4") @@ ("max_line_length" :> 100)
    @@ ("brace_style" :> "KAndR") @@ ("trailing_commas" :> "Preserve")
    @@ ("blank_lines_between_modules" :> 2) @@ ("preserve_comments" :> "All")

config_key_names == DOMAIN default_configuration

Malformed == [malformed |-> TRUE]

\* The strings a key accepts, and what each stands for.
Spellings ==
    "indent" :> ("tab" :> "Tab" @@ "spaces2" :> "Spaces2" @@ "spaces4" :> "Spaces4")
    @@ "brace_style" :> ("k&r" :> "KAndR" @@ "kandr" :> "KAndR"
                         @@ "allman" :> "Allman")
    @@ "trailing_commas" :> ("preserve" :> "Preserve" @@ "add" :> "Add"
                             @@ "remove" :> "Remove")
    @@ "preserve_comments" :> ("all" :> "All" @@ "leading_only" :> "LeadingOnly"
                               @@ "none" :> "None")

\* The integers a key accepts.
IntegerRange == "indent" :> {2, 4} @@ "max_line_length" :> 1 .. 10000
             @@ "blank_lines_between_modules" :> 0 .. 100

\* The TOML library reads an integer as a Boolean and a Boolean as an integer.
HasType(val, type) == type \in DOMAIN val
AsInt(val) == IF HasType(val, "bool") THEN IF val.bool THEN 1 ELSE 0 ELSE val.int
AsBool(val) == IF HasType(val, "int") THEN val.int # 0 ELSE val.bool

\* The value of the key, as a set that is empty when the key rejects it.
ReadValue(key, val) ==
    CASE key \in BoolKeys ->
           IF HasType(val, "str") THEN {} ELSE {AsBool(val)}
      [] key \notin BoolKeys /\ HasType(val, "str") ->
           IF key \in DOMAIN Spellings /\ val.str \in DOMAIN Spellings[key]
           THEN {Spellings[key][val.str]} ELSE {}
      [] OTHER ->
           IF key \in DOMAIN IntegerRange /\ AsInt(val) \in IntegerRange[key]
           THEN {IF key = "indent" THEN IF AsInt(val) = 2 THEN "Spaces2"
                                        ELSE "Spaces4"
                 ELSE AsInt(val)}
           ELSE {}

\* The defaults overlaid with the values of the document; a value that is
\* rejected makes the status Error, an unknown key only a warning.
parse_config_file(toml) ==
    IF toml = Malformed
    THEN [status |-> "Refused", cfg |-> default_configuration, warned |-> {}]
    ELSE LET known == DOMAIN toml \cap config_key_names
         IN  [status |-> IF \E k \in known : ReadValue(k, toml[k]) = {}
                         THEN "Error" ELSE "Success",
              cfg |-> [k \in config_key_names |->
                         IF k \in known /\ ReadValue(k, toml[k]) # {}
                         THEN CHOOSE x \in ReadValue(k, toml[k]) : TRUE
                         ELSE default_configuration[k]],
              warned |-> DOMAIN toml \ config_key_names]
-----------------------------------------------------------------------------
\* CR NL and CR become NL.
RECURSIVE NormalizeBreaks(_)
NormalizeBreaks(s) ==
    CASE s = <<>> -> <<>>
      [] s # <<>> /\ s[1] = CR ->
           << NL >> \o NormalizeBreaks(
                           IF Len(s) > 1 /\ s[2] = NL THEN Tail(Tail(s)) ELSE Tail(s))
      [] OTHER -> << s[1] >> \o NormalizeBreaks(Tail(s))

\* Mutant: NL is appended whether or not the text ends with one.
OneFinalBreakAlways(s) == IF s = <<>> THEN <<>> ELSE Append(s, NL)

\* A text that is not empty ends with one NL.
RECURSIVE OneFinalBreak(_)
OneFinalBreak(s) ==
    CASE s = <<>> -> <<>>
      [] Len(s) > 1 /\ Last(s) = NL /\ s[Len(s) - 1] = NL -> OneFinalBreak(Front(s))
      [] s # <<>> /\ Last(s) # NL -> Append(s, NL)
      [] OTHER -> s

IndentSpaces(cfg) == CASE cfg["indent"] = "Spaces2" -> 2
                       [] cfg["indent"] = "Spaces4" -> 4
                       [] cfg["indent"] = "Tab" -> -1

\* The text a slice of the source becomes.
sliceText(source, slice, cfg, range) ==
    LET raw == rawText(source, slice)
        unit == parseCompilationUnit(raw)
        pl == [src |-> raw, cfg |-> cfg, range |-> range,
               startLine |-> 1 + Cardinality({q \in 1 .. slice.begin - 1 :
                                                  source[q] = NL})]
    IN  IF slice.kind = "Directive" \/ \A i \in 1 .. Len(raw) : raw[i] \in Blank
        THEN raw
        ELSE render(build(pl, unit.n), cfg["max_line_length"], IndentSpaces(cfg))

\* One fragment that does not parse refuses the whole source.
format_buffer(source, cfg, range) ==
    LET slices == split(source)
        Unparsable(sl) ==
            /\ sl.kind = "NSLFragment"
            /\ \E i \in sl.begin .. sl.end - 1 : source[i] \notin Blank
            /\ ~parseCompilationUnit(rawText(source, sl)).ok
        Gather(acc, sl) == acc \o sliceText(source, sl, cfg, range)
    IN  IF \E i \in 1 .. Len(slices) : Unparsable(slices[i])
        THEN [status |-> "Refused", formattedText |-> <<>>]
        ELSE [status |-> "Success", formattedText |->
                OneFinalBreak(NormalizeBreaks(FoldLeft(Gather, <<>>, slices)))]

emit_unified_diff(oldText, newText) == computeUnifiedDiff(oldText, newText)
==============================================================================
