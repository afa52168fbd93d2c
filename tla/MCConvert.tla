----------------------------- MODULE MCConvert -----------------------------
(***************************************************************************)
(* What lies between a file picked and a file saved, on small instances:   *)
(* the page (ConvertFlow), the upload (Upload), the request under an       *)
(* Idempotency-Key (GenerateRequest), the loop that makes the output       *)
(* (Refinement), its tables (ExportTables) and the export kept for the     *)
(* record (HistoryExport).  The modules share no state but what their own steps   *)
(* assume of each other, so a behaviour is one of one of them, and `which` *)
(* says of which.                                                          *)
(***************************************************************************)
EXTENDS GenerateRequest, Refinement, ConvertFlow, HistoryExport, ExportTables,
        Upload, TLC

VARIABLE which

(* A document that fits, and longer ones: an upload with tables, one whose *)
(* text cannot be cut, and a list.                                         *)
MCDocuments ==
    {[size |-> 2, cut |-> FALSE, named |-> FALSE]}
    \cup [size : {9}, cut : BOOLEAN, named : {TRUE}]
    \cup {[size |-> 9, cut |-> FALSE, named |-> FALSE]}

(* What a model may answer with: tables whose names meet once they are     *)
(* cleaned, cut to three characters and numbered; rows of every kind under *)
(* headers that are blank, padded, alike or look numbered; and headers and *)
(* values that are formulas, or look like one that has its apostrophe.     *)
TableNames == {<<"a">>, <<"A">>, <<"a", "_", "1">>, <<"a", "b", "A">>, <<"_">>,
               <<"a", "b", "a", "/">>, <<"_", " ", "a", "/">>, <<" ">>}
HeaderTexts == {<<"a">>, <<"A", " ">>, <<"a", "_", "2">>, <<"b">>, <<" ">>}
Texts(lengths) == UNION {[1 .. n -> HeaderTexts] : n \in lengths}
ListRow(width) ==
    [kind |-> "list", keys |-> <<>>, values |-> [i \in 1 .. width |-> i]]
ObjectRow(keys) ==
    [kind |-> "object", keys |-> keys, values |-> [i \in DOMAIN keys |-> i]]
ScalarRow == [kind |-> "scalar", keys |-> <<>>, values |-> <<1>>]
ObjectRows ==
    {ObjectRow(k) : k \in {k \in Texts(0 .. 2) : Len(k) = 2 => k[1] # k[2]}}
Rows == {ListRow(n) : n \in 0 .. 3} \cup ObjectRows \cup {ScalarRow}
RowLists == {<<>>} \cup {<<r>> : r \in Rows}
    \cup {<<q, r>> : q \in {ListRow(1), ObjectRow(<<<<"a">>>>), ScalarRow}, r \in Rows}
Table(name, headers, rows) == [name |-> name, headers |-> headers, rows |-> rows]
Output(shape, ts) == [shape |-> shape, tables |-> ts]
FormulaTexts == {<<"=">>, <<"'", "=">>, <<" ", "=">>, <<"'", " ", "=">>}
FormulaRow(headers) ==
    [kind |-> "object", keys |-> headers,
     values |-> [i \in DOMAIN headers |-> IF i = 1 THEN 2 ELSE -2]]
MCOutputs ==
    {Output("direct", <<Table(<<>>, headers, rows)>>) :
        headers \in Texts(0 .. 3), rows \in {<<r>> : r \in Rows}}
    \cup {Output(shape, <<Table(<<"a">>, headers, <<FormulaRow(headers)>>)>>) :
        shape \in {"canonical", "direct"},
        headers \in {pair \in [1 .. 2 -> FormulaTexts] : pair[1] # pair[2]}}
    \cup {Output(shape, <<Table(<<"a">>, <<>>, rows)>>) :
        shape \in {"sheets", "object"}, rows \in RowLists}
    \cup {Output("canonical", <<Table(<<"a">>, headers, <<r>>)>>) :
        headers \in Texts(0 .. 2), r \in ObjectRows}
    \cup {Output("canonical", [i \in 1 .. 3 |->
            Table(names[i], <<<<"a">>>>, <<ObjectRow(<<<<"a">>>>)>>)]) :
        names \in [1 .. 3 -> TableNames]}
    \cup {Output("sheets", [i \in 1 .. 2 |->
            Table(names[i], <<>>, <<ListRow(1)>>)]) :
        names \in {pair \in [1 .. 2 -> TableNames] : pair[1] # pair[2]}}

(* What may be posted: files of every kind under every name, and of each   *)
(* extension those its parser tells apart.                                 *)
PlainHints ==
    [xml |-> "document", opens |-> TRUE, noted |-> 0, rendered |-> 0, manual |-> 0,
     before |-> 0, inBody |-> 0, sections |-> 1, chars |-> 1, words |-> 1,
     blocks |-> 1, images |-> 0, area |-> 0, usable |-> 6000]
PlainFile(ext, content, said) ==
    [ext |-> ext, content |-> content, mime |-> said, claimed |-> "none", size |-> 1,
     whole |-> TRUE, locked |-> FALSE, marked |-> TRUE, feeds |-> 0, sheets |-> 1,
     hints |-> PlainHints, pages |-> <<>>, header |-> <<<<1>>>>, rows |-> <<<<5>>>>]
ListsOf(S, lengths) == UNION {[1 .. n -> S] : n \in lengths}
AnyFile ==
    {[PlainFile(ext, content, said) EXCEPT !.whole = whole] :
        ext \in {"pdf", "xls", "xlsx", "doc", "docx", "txt", "csv",
                 "png", "jpg", "jpeg", "unknown"},
        content \in Contents, said \in MimeTypes \cup {"none", "raises"}, whole \in BOOLEAN}
    \cup {[PlainFile("txt", content, said) EXCEPT !.claimed = "text"] :
        content \in Contents, said \in {"octet", "other"}}
Pdf == PlainFile("pdf", "pdf", "pdf")
PdfPage(chars) == [layer : BOOLEAN, chars : chars]
AnyPdf ==
    {[Pdf EXCEPT !.pages = pages] : pages \in ListsOf(PdfPage({0, 1, 4}), 0 .. 3)}
    \cup {[Pdf EXCEPT !.pages = pages] : pages \in ListsOf(PdfPage({4}), {4})}
    \cup {[Pdf EXCEPT !.locked = TRUE]} \cup {[Pdf EXCEPT !.size = n] : n \in {3, 9}}
AnyHints ==
    {[PlainHints EXCEPT !.xml = xml, !.opens = opens, !.noted = noted,
                        !.rendered = breaks, !.inBody = breaks, !.words = words] :
        xml \in {"missing", "broken", "other", "document"}, opens \in BOOLEAN,
        noted \in {0, 3, 4}, breaks \in {0, 2, 3}, words \in {1, 7}}
    \cup {[PlainHints EXCEPT !.images = n, !.area = area] :
        n \in {1, 4, 7}, area \in {0, 300, 2500, 9000, 20000}}
AnyWord ==
    {[PlainFile("docx", "docx", "document") EXCEPT !.hints = h] : h \in AnyHints}
    \cup {[PlainFile("doc", "doc", "word") EXCEPT !.locked = locked, !.marked = marked,
                                                  !.feeds = feeds] :
        locked \in BOOLEAN, marked \in BOOLEAN, feeds \in 0 .. 3}
AnyRows ==
    {[PlainFile("csv", "text", "text") EXCEPT !.header = header, !.rows = rows] :
        header \in ListsOf({<<1>>, <<2>>, <<1, 1>>}, 0 .. 3),
        rows \in {<<>>, <<<<>>>>, <<<<5>>, <<>>, <<6, 7, 8>>>>, <<<<5, 6, 7>>>>}}
    \cup {[PlainFile(ext, ext, "octet") EXCEPT !.rows = rows] :
        ext \in {"xls", "xlsx"}, rows \in {<<r, q>> : r \in ListsOf({0, 5}, 0 .. 3),
                                            q \in ListsOf({0, 5, -2}, 1 .. 3)}}
    \cup {[PlainFile("xlsx", "xlsx", "sheet") EXCEPT !.sheets = n] : n \in 3 .. 4}
MCPosted == UNION {AnyFile, AnyPdf, AnyWord, AnyRows}

(* What stands still is tested to be in its set before what varies is      *)
(* chosen from its own: TLC then tests it once.                            *)
MCInit ==
    /\ which \in {"request", "output", "page", "export", "tables", "upload"}
    /\ which = "upload" \/ posted = Pdf
    /\ which = "output" \/ job = CHOOSE j \in Jobs : TRUE
    /\ which = "tables" \/ produced = Output("object", <<Table(<<"a">>, <<>>, <<ScalarRow>>)>>)
    /\ IF which = "upload" THEN TablesInit /\ UploadInit ELSE UploadInit /\ TablesInit
    /\ Init /\ RefineInit /\ ConvertInit /\ ExportInit

OfRequest ==
    /\ which = "request" /\ Next
    /\ UNCHANGED <<which, refineVars, convertVars, exportVars, tableVars, uploadVars>>
OfOutput ==
    /\ which = "output" /\ RefineNext
    /\ UNCHANGED <<which, vars, convertVars, exportVars, tableVars, uploadVars>>
OfPage ==
    /\ which = "page" /\ ConvertNext
    /\ UNCHANGED <<which, vars, refineVars, exportVars, tableVars, uploadVars>>
OfExport ==
    /\ which = "export" /\ ExportNext
    /\ UNCHANGED <<which, vars, refineVars, convertVars, tableVars, uploadVars>>

OfTables ==
    /\ which = "tables" /\ TablesNext
    /\ UNCHANGED <<which, vars, refineVars, convertVars, exportVars, uploadVars>>
OfUpload ==
    /\ which = "upload" /\ UploadNext
    /\ UNCHANGED <<which, vars, refineVars, convertVars, exportVars, tableVars>>

MCNext == OfRequest \/ OfOutput \/ OfPage \/ OfExport \/ OfTables \/ OfUpload

MCSpec ==
    MCInit /\ [][MCNext]_<<which, vars, refineVars, convertVars, exportVars,
                            tableVars, uploadVars>>

(* The types of all six. *)
MCTypeOK ==
    TypeOK /\ RefineTypeOK /\ ConvertTypeOK /\ ExportTypeOK /\ TablesTypeOK
    /\ UploadTypeOK

Symmetry == Permutations(Requests) \cup Permutations(Accesses)
=============================================================================
