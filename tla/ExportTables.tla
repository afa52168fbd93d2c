---------------------------- MODULE ExportTables ----------------------------
(***************************************************************************)
(* From the JSON a model answered with to the tables of a CSV or XLSX      *)
(* file.  build_export_output_json turns any output into named tables when *)
(* it is stored; a download validates these tables, maps their rows to     *)
(* columns, makes names for sheets or files, and writes one artifact.      *)
(*                                                                         *)
(* Texts are sequences of characters of a small alphabet, for names are    *)
(* trimmed, compared without case, numbered, cut and quoted.  A cell is    *)
(* the sequence of the values in it: one, none for null, and those of a    *)
(* whole row, after its bracket, when it is serialised.  The value -v is   *)
(* the text of v with an apostrophe before it.                             *)
(***************************************************************************)
EXTENDS Integers, Sequences, FiniteSets

CONSTANTS Outputs,     (* generated outputs: their shape, and the tables in   *)
                       (* them as [name, headers, rows]; a row is its kind,   *)
                       (* its keys if it is an object, and its values         *)
          Formulas,    (* values whose text starts like a formula             *)
          MaxSheetName (* _EXCEL_MAX_SHEET_NAME_LENGTH                        *)

Text == Seq(STRING)
Entry == [kind : {"list", "object", "scalar"}, keys : Seq(Text), values : Seq(Int)]
SourceTable == [name : Text, headers : Seq(Text), rows : Seq(Entry)]

BlankChar == " "
Underscore == "_"
FormulaChar == "="  (* one of _CSV_FORMULA_PREFIXES                            *)
Quote == "'"
Bracket == 0        (* what the JSON of a row begins with                      *)

(* The decimal digits of a number, and the number a name gets.             *)
Digits == <<"0", "1", "2", "3", "4", "5", "6", "7", "8", "9">>
Decimal[n \in Nat] ==
    IF n < 10 THEN <<Digits[n + 1]>>
    ELSE Append(Decimal[n \div 10], Digits[(n % 10) + 1])
Suffix(n) == <<Underscore>> \o Decimal[n]

(* JSON objects have a value for each key and no key twice.  A canonical   *)
(* output with a row that is not an object is refused before anything is   *)
(* written (_validate_row_structure), so none of them is enumerated.  The  *)
(* number of a sheet fits into a name: 31 characters are 30 digits.        *)
ASSUME ExportTablesAssumption ==
    /\ MaxSheetName \in Nat \ 0 .. 2
    /\ Formulas \subseteq Nat \ {Bracket}
    /\ Outputs \subseteq [shape : {"canonical", "direct", "sheets", "object"},
                          tables : Seq(SourceTable)]
    /\ \A out \in Outputs :
          /\ \A k \in 1 .. Len(out.tables) : Len(Suffix(k)) <= MaxSheetName
          /\ \A i \in DOMAIN out.tables : \A n \in DOMAIN out.tables[i].rows :
                LET entry == out.tables[i].rows[n]
                IN  /\ out.shape = "canonical" => entry.kind = "object"
                    /\ entry.kind = "object" =>
                          /\ DOMAIN entry.keys = DOMAIN entry.values
                          /\ \A j, k \in DOMAIN entry.keys :
                                entry.keys[j] = entry.keys[k] => j = k

VARIABLES produced, (* output_json                                          *)
          tables,   (* export_output_json's content_data                    *)
          format,   (* what is asked for: "csv", "xlsx"                     *)
          sheets,   (* the sheets of the artifact that was written          *)
          download  (* "none", then what the download answered              *)

tableVars == <<produced, tables, format, sheets, download>>

Capital == [A |-> "a", S |-> "s"]
Lower(text) ==
    [i \in DOMAIN text |->
        IF text[i] \in DOMAIN Capital THEN Capital[text[i]] ELSE text[i]]
Alike(s, t) == Lower(s) = Lower(t)

Cut(text, n) == SubSeq(text, 1, IF n < Len(text) THEN n ELSE Len(text))
(* text without the leading characters that are in chars. *)
Stripped(text, chars) ==
    LET kept == {i \in DOMAIN text : text[i] \notin chars}
    IN  IF kept = {} THEN <<>>
        ELSE SubSeq(text, CHOOSE i \in kept : \A j \in kept : i <= j, Len(text))
Reversed(text) == [i \in DOMAIN text |-> text[Len(text) + 1 - i]]
Trim(text) == Reversed(Stripped(Reversed(Stripped(text, {BlankChar})), {BlankChar}))

-----------------------------------------------------------------------------
(* build_export_output_json *)

(* _normalize_headers: blank ones are named by their place, and the second *)
(* of two alike is numbered 2.                                             *)
NormalizeHeaders(raw) ==
    LET named == [i \in DOMAIN raw |->
                    IF Trim(raw[i]) = <<>> THEN <<"c">> \o Decimal[i] ELSE Trim(raw[i])]
        before(i) == Cardinality({j \in 1 .. i - 1 : Alike(named[j], named[i])})
    IN  IF raw = <<>> THEN <<<<"v">>>>
        ELSE [i \in DOMAIN raw |->
                IF before(i) = 0 THEN named[i] ELSE named[i] \o Suffix(before(i) + 1)]

Places(seq, x) == {i \in DOMAIN seq : seq[i] = x}
Latest(S) == CHOOSE i \in S : \A j \in S \ {i} : j < i

(* _map_array_row_to_object and its like.  Of equal headers the last wins. *)
ObjectOf(entry, headers) ==
    [h \in {headers[i] : i \in DOMAIN headers} |->
        LET i == Latest(Places(headers, h)) IN
        CASE entry.kind = "list" ->
                IF i \in DOMAIN entry.values THEN <<entry.values[i]>> ELSE <<>>
          [] entry.kind = "object" ->
                IF Places(entry.keys, h) = {} THEN <<>>
                ELSE <<entry.values[Latest(Places(entry.keys, h))]>>
          [] OTHER -> IF i = 1 THEN entry.values ELSE <<>>]

(* The keys of all rows, in the order they are met.                        *)
WithKeys(seen, keys) ==
    LET f[n \in 0 .. Len(keys)] ==
          IF n = 0 THEN seen
          ELSE IF Places(f[n - 1], keys[n]) = {} THEN Append(f[n - 1], keys[n])
          ELSE f[n - 1]
    IN  f[Len(keys)]
AllKeys(rows) ==
    LET f[n \in 0 .. Len(rows)] ==
          IF n = 0 THEN <<>> ELSE WithKeys(f[n - 1], rows[n].keys)
    IN  f[Len(rows)]

Only(rows, kind) == rows # <<>> /\ \A i \in DOMAIN rows : rows[i].kind = kind
Widest(rows) ==
    Latest({0} \cup {Len(rows[i].values) : i \in DOMAIN rows})

(* A row that is written whole, as text.                                   *)
Json(values) == <<Bracket>> \o values

(* _infer_headers_and_rows_from_rows_array, or the headers that came with  *)
(* the rows.                                                               *)
Tabulated(shape, table, i) ==
    LET mixed == shape # "direct" /\ ~Only(table.rows, "list")
                                  /\ ~Only(table.rows, "object")
        headers ==
          CASE shape = "direct" -> NormalizeHeaders(table.headers)
            [] mixed -> NormalizeHeaders(<<>>)
            [] shape # "direct" /\ Only(table.rows, "list") ->
                 NormalizeHeaders([n \in 1 .. Widest(table.rows) |-> <<"c">> \o Decimal[n]])
            [] OTHER -> NormalizeHeaders(AllKeys(table.rows))
        whole(entry) ==
          [kind |-> "scalar", keys |-> <<>>,
           values |-> IF entry.kind = "scalar" THEN entry.values ELSE Json(entry.values)]
    IN  [name |-> IF shape = "sheets" /\ Trim(table.name) # <<>>
                  THEN Trim(table.name) ELSE <<"S">> \o Decimal[i],
         headers |-> headers,
         rows |-> [n \in DOMAIN table.rows |->
                     ObjectOf(IF mixed THEN whole(table.rows[n]) ELSE table.rows[n],
                              headers)]]

(* content_data is taken as it is. *)
AsIs(table) ==
    [name |-> table.name, headers |-> table.headers,
     rows |-> [n \in DOMAIN table.rows |->
                 LET keys == table.rows[n].keys
                 IN  [k \in {keys[j] : j \in DOMAIN keys} |->
                        <<table.rows[n].values[Latest(Places(keys, k))]>>]]]

Build(out) ==
    [i \in DOMAIN out.tables |->
        IF out.shape = "canonical" THEN AsIs(out.tables[i])
        ELSE Tabulated(out.shape, out.tables[i], i)]

-----------------------------------------------------------------------------
(* validate_output_llm: rows are held against the trimmed headers, ...     *)
HeadersApart(headers) ==
    \A i, j \in DOMAIN headers :
        /\ Trim(headers[i]) # <<>>
        /\ i # j => ~Alike(Trim(headers[i]), Trim(headers[j]))
Valid(ts) ==
    /\ ts # <<>>
    /\ \A i, j \in DOMAIN ts : i # j => ts[i].name # ts[j].name
    /\ \A i \in DOMAIN ts :
          /\ Trim(ts[i].name) # <<>>
          /\ ts[i].headers # <<>> /\ HeadersApart(ts[i].headers)
          /\ \A n \in DOMAIN ts[i].rows :
                DOMAIN ts[i].rows[n] =
                    {Trim(ts[i].headers[j]) : j \in DOMAIN ts[i].headers}

(* ... and map_output_csv against the headers as they are. *)
Mappable(ts) ==
    \A i \in DOMAIN ts : \A n \in DOMAIN ts[i].rows :
        DOMAIN ts[i].rows[n] = {ts[i].headers[j] : j \in DOMAIN ts[i].headers}

(* CSVSanitizationPolicy: what a spreadsheet would take for a formula gets *)
(* an apostrophe.  Headers are compared before that and never after it.    *)
StartsFormula(text) ==
    \E i \in DOMAIN text : /\ text[i] = FormulaChar
                           /\ \A j \in 1 .. i - 1 : text[j] = BlankChar
SanitizedHeader(h) == IF StartsFormula(h) THEN <<Quote>> \o h ELSE h
Sanitized(cell) == IF \E v \in Formulas : cell = <<v>> THEN <<-cell[1]>> ELSE cell

(* map_output_csv, and what is written of it.                              *)
MapOutput(ts) ==
    [i \in DOMAIN ts |->
        [name |-> ts[i].name,
         headers |-> [j \in DOMAIN ts[i].headers |-> SanitizedHeader(ts[i].headers[j])],
         rows |-> [n \in DOMAIN ts[i].rows |->
                     [j \in DOMAIN ts[i].headers |->
                         Sanitized(ts[i].rows[n][ts[i].headers[j]])]]]]

-----------------------------------------------------------------------------
Cleaned(text, invalid) ==
    [i \in DOMAIN text |-> IF text[i] \in invalid THEN Underscore ELSE text[i]]

(* _normalize_csv_filename and _ensure_csv_extension, for name.csv. *)
CsvStem(name) ==
    LET bare == Stripped(Cleaned(Stripped(name, {BlankChar}), {"/"}), {".", Underscore})
        stem == Stripped(bare, {BlankChar})
    IN  IF bare = <<>> THEN <<"c", "s", "v">>
        ELSE IF stem = <<>> THEN <<".", "c", "s", "v">>
        ELSE stem
SheetTitle(name) == Cut(Trim(Cleaned(name, {"/"})), MaxSheetName)

(* The n-th name tried for one that is taken. *)
CandidateUncut(base, n) == IF n = 0 THEN base ELSE base \o Suffix(n)
Candidate(base, n) ==
    IF n = 0 THEN base
    ELSE IF format = "csv" THEN base \o Suffix(n)
    ELSE Cut(base, MaxSheetName - Len(Suffix(n))) \o Suffix(n)

(* _dedupe_csv_filename and _normalize_excel_sheet_name, sheet by sheet.    *)
Base(table) == IF format = "csv" THEN CsvStem(table.name) ELSE SheetTitle(table.name)
Taken(names, text) == \E i \in DOMAIN names : Alike(names[i], text)
NextName(names, base) ==
    Candidate(base,
        CHOOSE k \in 0 .. Len(names) + 1 :
            /\ ~Taken(names, Candidate(base, k))
            /\ \A l \in 0 .. k - 1 : Taken(names, Candidate(base, l)))
Names(ts) ==
    LET f[n \in 0 .. Len(ts)] ==
          IF n = 0 THEN <<>> ELSE Append(f[n - 1], NextName(f[n - 1], Base(ts[n])))
    IN  f[Len(ts)]

-----------------------------------------------------------------------------
TablesInit ==
    /\ produced \in Outputs
    /\ tables = <<>> /\ sheets = <<>>
    /\ format \in {"csv", "xlsx"}
    /\ download = "none"

(* The output is stored with its tables. *)
Store ==
    /\ tables = <<>>
    /\ tables' = Build(produced)
    /\ UNCHANGED <<produced, format, sheets, download>>

(* A download: the tables are refused with 400, or written and served. *)
Refuse ==
    /\ tables # <<>> /\ download = "none"
    /\ ~(Valid(tables) /\ Mappable(tables))
    /\ download' = "invalid"
    /\ UNCHANGED <<produced, tables, format, sheets>>

Export ==
    /\ tables # <<>> /\ download = "none"
    /\ Valid(tables) /\ Mappable(tables)
    /\ sheets' = [i \in DOMAIN tables |->
                  [MapOutput(tables)[i] EXCEPT !.name = Names(tables)[i]]]
    /\ download' = "served"
    /\ UNCHANGED <<produced, tables, format>>

ExportFails ==
    /\ tables # <<>> /\ download = "none"
    /\ Valid(tables) /\ Mappable(tables)
    /\ download' = "error"
    /\ UNCHANGED <<produced, tables, format, sheets>>

TablesNext == Store \/ Refuse \/ Export \/ ExportFails
TablesSpec == TablesInit /\ [][TablesNext]_tableVars

-----------------------------------------------------------------------------
TablesTypeOK ==
    /\ produced.shape \in {"canonical", "direct", "sheets", "object"}
    /\ format \in {"csv", "xlsx"}
    /\ download \in {"none", "invalid", "served", "error"}
    /\ (download = "served") <=> (sheets # <<>>)
    /\ download # "none" => Len(tables) = Len(produced.tables)
    /\ \A i \in DOMAIN sheets : \A n \in DOMAIN sheets[i].rows :
          Len(sheets[i].rows[n]) = Len(sheets[i].headers)

(* No two sheets or files of an artifact have names that a program which   *)
(* ignores case confuses, and no sheet name is too long to open, however   *)
(* the tables are called: cutting and numbering never meet.                *)
NamesApart ==
    \A i, j \in DOMAIN sheets :
        /\ i # j => ~Alike(sheets[i].name, sheets[j].name)
        /\ sheets[i].name # <<>>
        /\ format = "xlsx" => Len(sheets[i].name) <= MaxSheetName
        /\ \A k \in DOMAIN sheets[i].name : sheets[i].name[k] # "/"

(* What is written stands in its row and under its own header: alone, with *)
(* the apostrophe of a formula, or with all of its row.                    *)
Shows(cell, v, values) ==
    cell \in {<<v>>, Json(values)} \/ (v \in Formulas /\ cell = <<-v>>)
InPlace(cells, stored, entry) ==
    \A j \in DOMAIN entry.values :
        CASE entry.kind = "list" /\ j \in DOMAIN stored ->
                Shows(cells[j], entry.values[j], entry.values)
          [] entry.kind = "object" ->
                \A i \in Places(stored, entry.keys[j]) :
                    Shows(cells[i], entry.values[j], entry.values)
          [] OTHER -> TRUE

(* The headers that are written are those that were stored, which differ,  *)
(* except for the apostrophe: two are alike only if one of them has just   *)
(* got its apostrophe and the other came with it.                          *)
HeadersTold(written, stored) ==
    /\ HeadersApart(stored) /\ DOMAIN written = DOMAIN stored
    /\ \A j, k \in DOMAIN stored :
          /\ written[j] \in {stored[j], <<Quote>> \o stored[j]}
          /\ j # k /\ Alike(written[j], written[k]) =>
                (written[j] = stored[j]) # (written[k] = stored[k])

(* Nothing that is written is taken for a formula.                         *)
NoFormula(sheet) ==
    /\ \A j \in DOMAIN sheet.headers : ~StartsFormula(sheet.headers[j])
    /\ \A n \in DOMAIN sheet.rows : \A j \in DOMAIN sheet.rows[n] :
          \A v \in Formulas : sheet.rows[n][j] # <<v>>

CellsInPlace ==
    \A i \in DOMAIN sheets :
        /\ HeadersTold(sheets[i].headers, tables[i].headers)
        /\ NoFormula(sheets[i])
        /\ DOMAIN sheets[i].rows = DOMAIN produced.tables[i].rows
        /\ \A n \in DOMAIN sheets[i].rows :
              InPlace(sheets[i].rows[n], tables[i].headers, produced.tables[i].rows[n])

(* Texts that need no mending: nothing to trim, no two alike, and none     *)
(* that looks numbered.                                                    *)
Plain(texts) ==
    \A i, j \in DOMAIN texts :
        /\ texts[i] # <<>> /\ texts[i] = Trim(texts[i])
        /\ \A k \in DOMAIN texts[i] : texts[i][k] \notin {Underscore, "c"}
        /\ i # j => ~Alike(texts[i], texts[j])
Ordinary(table) ==
    /\ Plain(table.headers) /\ Plain(AllKeys(table.rows))
    /\ produced.shape = "direct" =>
          /\ Len(table.headers) > 0
          /\ \A n \in DOMAIN table.rows :
                /\ Len(table.rows[n].values) <= Len(table.headers)
                /\ \A k \in DOMAIN table.rows[n].keys :
                      Places(table.headers, table.rows[n].keys[k]) # {}
Appears(v, cells) ==
    \E i \in DOMAIN cells : \/ Places(cells[i], v) # {}
                            \/ v \in Formulas /\ Places(cells[i], -v) # {}

(* An output that was not tables to begin with and needs no mending is     *)
(* never refused, and nothing of it is lost.                               *)
OrdinaryKept ==
    /\ download # "none" /\ produced.shape # "canonical"
    /\ \A i \in DOMAIN produced.tables : Ordinary(produced.tables[i])
    /\ produced.shape = "sheets" =>
          Plain([i \in DOMAIN produced.tables |-> produced.tables[i].name])
    => /\ download # "invalid"
       /\ \A i \in DOMAIN sheets : \A n \in DOMAIN sheets[i].rows :
             \A v \in DOMAIN produced.tables[i].rows[n].values :
                Appears(produced.tables[i].rows[n].values[v], sheets[i].rows[n])

ExportFaithful == NamesApart /\ CellsInPlace /\ OrdinaryKept
=============================================================================
