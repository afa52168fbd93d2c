------------------------------- MODULE Upload -------------------------------
(***************************************************************************)
(* One POST of a file to upload(): the file is validated as what its name  *)
(* says, whatever libmagic makes of it, put into the directory for         *)
(* temporary files, read by the parser of its extension and removed, and   *)
(* what was read is answered.  Of a PDF the text layer is read page by     *)
(* page, and pages without text are read by OCR; where that fails the      *)
(* whole document is read again, by its text or by OCR.                    *)
(*                                                                         *)
(* Files of other requests have names of their own (uuid4), so nothing is  *)
(* shared with them.  A file is what the code and its libraries look at;   *)
(* a library may fail on any file.                                         *)
(***************************************************************************)
EXTENDS Integers, Sequences, FiniteSets

CONSTANTS Posted,        (* the files that are posted                         *)
          MaxFileSize,   (* MAX_FILE_SIZE                                     *)
          Overhead,      (* MAX_MULTIPART_OVERHEAD_BYTES                      *)
          MaxPages,      (* MAX_PDF_PAGES, MAX_EXCEL_SHEETS, MAX_WORD_PAGES   *)
          EnoughText,    (* TEXT_LAYER_MIN_CHARS_PER_PAGE                     *)
          CharsPerPage,  (* DOCX_CHARS_PER_PAGE_ESTIMATE                      *)
          WordsPerPage,  (* DOCX_WORDS_PER_PAGE_ESTIMATE                      *)
          BlocksPerPage  (* DOCX_BLOCKS_PER_PAGE_ESTIMATE                     *)

Images == {"png", "jpeg"}
OleFiles == {"xls", "sealed", "doc", "ole"}
ZipFiles == {"xlsx", "docx", "zip"}
MimeTypes == {"pdf", "excel", "octet", "ole", "cdf", "office", "sheet", "zip",
              "word", "document", "text", "csv", "png", "jpeg", "other"}
Contents == OleFiles \cup ZipFiles \cup Images \cup {"pdf", "binary", "text", "other"}

(* What the estimates of a docx look at: its document.xml (missing,        *)
(* broken, XML of something else, a document), does python-docx open it,   *)
(* the pages Word noted, page breaks rendered, manual, before paragraphs,  *)
(* and in paragraphs of the body, sections, characters, words, paragraphs  *)
(* and rows, images, their area and the usable area of a page, both in     *)
(* hundredths of a square inch.                                            *)
Hints == [xml : {"missing", "broken", "other", "document"}, opens : BOOLEAN,
          noted : Nat, rendered : Nat, manual : Nat, before : Nat, inBody : Nat,
          sections : Nat, chars : Nat, words : Nat, blocks : Nat,
          images : Nat, area : Nat, usable : Nat \ {0}]

(* A file: its extension, what it really is, what libmagic calls it, which *)
(* may be anything or "raises", and the client (content_type), its size,   *)
(* whether the libraries can read it, whether a password protects it,      *)
(* whether a doc names its stream and how many form feeds it has, its      *)
(* sheets, its hints, its pages (is there text or a table in the layer,    *)
(* how many characters does PyPDF2 find), the header of a CSV, and the     *)
(* rows of a CSV or of a sheet.  Cells are numbers, 0 if blank and -n for  *)
(* the text "nullxn" ("null" if n = 1); headers are rows of numbers, so    *)
(* that to add "_1" is to append a 1.                                      *)
Header == Seq(Nat)
PostedFile ==
    [ext : {"pdf", "xls", "xlsx", "doc", "docx", "txt", "csv",
            "png", "jpg", "jpeg", "unknown"},
     content : Contents, mime : MimeTypes \cup {"none", "raises"},
     claimed : MimeTypes \cup {"none"}, size : Nat, whole : BOOLEAN,
     locked : BOOLEAN, marked : BOOLEAN, feeds : Nat, sheets : Nat, hints : Hints,
     pages : Seq([layer : BOOLEAN, chars : Nat]),
     header : Seq(Header), rows : Seq(Seq(Int))]

ASSUME UploadAssumption ==
    /\ Posted \subseteq PostedFile
    /\ MaxFileSize \in Nat /\ Overhead \in Nat /\ MaxPages \in Nat /\ EnoughText \in Nat
    /\ CharsPerPage \in Nat \ {0} /\ WordsPerPage \in Nat \ {0}
    /\ BlocksPerPage \in Nat \ {0}

VARIABLES posted,     (* uploaded_file                                        *)
          work,       (* what the request does next                           *)
          temp,       (* the temporary file: "none", "part" or "whole"        *)
          extracted,  (* content: the pages read so far                       *)
          overall,    (* does the document have ocr_metadata of its own       *)
          parsed,     (* the rows of a CSV or of a sheet                      *)
          status,     (* the response's status, 0 before                      *)
          leftover    (* why the temporary file was left, "no" if it was not  *)

uploadVars == <<posted, work, temp, extracted, overall, parsed, status, leftover>>

Largest(S) == CHOOSE n \in S : \A k \in S : k <= n
PagesFor(amount, perPage) == (amount + perPage - 1) \div perPage
AfterBreaks(breaks) == IF breaks = 0 THEN 0 ELSE breaks + 1
Sections(n) == IF n > 1 THEN n ELSE 0

(* The numbers of S from 1 to n, in their order. *)
InOrder(S, n) ==
    LET upTo[k \in 0 .. n] ==
            IF k = 0 THEN <<>>
            ELSE IF k \in S THEN Append(upTo[k - 1], k) ELSE upTo[k - 1]
    IN  upTo[n]

-----------------------------------------------------------------------------
(* How many pages a Word file is taken to have.                            *)

ImagesPerPage(h) ==
    IF h.area = 0 THEN 6
    ELSE IF h.area * 100 >= h.usable * 35 * h.images THEN 1
    ELSE IF h.area >= 600 * h.images THEN 2
    ELSE IF h.area >= 150 * h.images THEN 3 ELSE 6
ImagePages(h) ==
    IF h.images = 0 THEN 0
    ELSE Largest({PagesFor(h.area * 100, h.usable * 65),
                  PagesFor(h.images, ImagesPerPage(h))})

PythonDocxPages(h) ==
    IF ~h.opens THEN 0
    ELSE Largest({AfterBreaks(h.inBody), Sections(h.sections),
                  PagesFor(h.words, WordsPerPage), PagesFor(h.blocks, BlocksPerPage),
                  ImagePages(h)})

XmlPages(h) ==
    IF h.xml # "document" THEN 0
    ELSE Largest({AfterBreaks(h.rendered), AfterBreaks(h.manual), AfterBreaks(h.before),
                  Sections(h.sections), PagesFor(h.chars, CharsPerPage)})

DocxPages(h) ==
    IF h.xml = "missing" THEN h.noted
    ELSE Largest({h.noted, XmlPages(h), PythonDocxPages(h)})

-----------------------------------------------------------------------------
(* Validation.                                                             *)

IsOle(f) == f.content \in OleFiles
IsLegacyXls(f) == f.content = "xls" /\ f.whole

AllowedMimeTypes ==
    [pdf |-> {"pdf"}, txt |-> {"text", "csv"}, csv |-> {"text", "csv", "excel"},
     xls |-> {"excel", "octet", "ole", "cdf", "office"},
     xlsx |-> {"sheet", "zip", "octet"},
     doc |-> {"word", "octet", "ole", "cdf"},
     docx |-> {"document", "zip", "octet", "ole"},
     png |-> {"png"}, jpg |-> {"jpeg"}, jpeg |-> {"jpeg"}]

(* Without libmagic the first bytes tell. *)
FallbackMime(f) ==
    CASE f.content = "pdf" -> "pdf"
      [] f.content \in ZipFiles -> "zip"
      [] IsOle(f) -> "ole"
      [] OTHER -> IF f.ext \in {"xls", "doc"} THEN "octet" ELSE "none"
DetectedMime(f) == IF f.mime = "raises" THEN FallbackMime(f) ELSE f.mime

(* For a text the client's word counts where libmagic's is vague. *)
TextMime(f) ==
    IF f.ext = "txt" /\ DetectedMime(f) \in {"octet", "zip", "ole"} /\ f.claimed # "none"
    THEN f.claimed ELSE DetectedMime(f)
HasBinarySignature(f) == f.content \notin {"text", "other"}

MimeFits(f) ==
    LET allowed == AllowedMimeTypes[f.ext]
    IN  /\ DetectedMime(f) # "none"
        /\ \/ /\ f.ext = "xlsx"
              /\ \/ IsLegacyXls(f)
                 \/ f.content \in ZipFiles /\ DetectedMime(f) \in allowed
           \/ f.ext \in {"txt", "csv"} /\ ~HasBinarySignature(f) /\ TextMime(f) \in allowed
           \/ f.ext = "doc" /\ IsOle(f) /\ DetectedMime(f) \in allowed
           \/ /\ f.ext = "docx" /\ f.content \in OleFiles \cup ZipFiles
              /\ DetectedMime(f) \in allowed
           \/ f.ext \in {"pdf", "xls"} /\ DetectedMime(f) \in allowed

SheetsFit(f) ==
    /\ IF f.ext = "xls" \/ IsLegacyXls(f) THEN IsLegacyXls(f)
       ELSE f.content = "xlsx" /\ f.whole
    /\ f.sheets <= MaxPages

WordFits(f) ==
    \/ /\ f.ext = "docx" /\ f.content = "docx" /\ f.whole
       /\ DocxPages(f.hints) <= MaxPages
    \/ /\ f.ext = "doc" /\ IsOle(f) /\ ~f.locked /\ f.marked
       /\ AfterBreaks(f.feeds) <= MaxPages

ImageFits(f) ==
    /\ f.size <= MaxFileSize
    /\ f.mime \in AllowedMimeTypes[f.ext]
    /\ f.content \in Images /\ f.whole

ImageExtensions == {"png", "jpg", "jpeg"}
FileFits(f) ==
    /\ f.ext # "unknown"
    /\ IF f.ext \in ImageExtensions THEN ImageFits(f)
       ELSE /\ f.size <= MaxFileSize
            /\ MimeFits(f)
            /\ f.ext \in {"xls", "xlsx"} => SheetsFit(f)
            /\ f.ext \in {"doc", "docx"} => WordFits(f)

PdfFits(f) ==
    f.content = "pdf" /\ f.whole /\ ~f.locked /\ Len(f.pages) <= MaxPages

-----------------------------------------------------------------------------
(* Reading.                                                                *)

(* An entry of content: the page it is listed as and the page it was read  *)
(* of, who read it, and whether it has ocr_metadata.  What has no pages    *)
(* has one entry.                                                          *)
PageEntry(listed, page, reader) ==
    [page |-> listed, of |-> page, by |-> reader, told |-> reader = "ocr"]

(* What the parser of an extension must find in the file that was saved.   *)
IsReadable(f) ==
    CASE f.ext = "xls" -> IsLegacyXls(f)
      [] f.ext = "xlsx" -> IF IsOle(f) THEN IsLegacyXls(f)
                           ELSE f.content = "xlsx" /\ f.whole
      [] f.ext = "docx" -> /\ f.content = "docx" /\ f.whole
                           /\ f.hints.xml \in {"other", "document"}
      [] f.ext = "doc" -> f.content = "doc" /\ f.whole
      [] f.ext = "csv" -> /\ f.whole /\ f.header # <<>>
                          /\ \E n \in DOMAIN f.rows : f.rows[n] # <<>>
      [] OTHER -> f.whole

(* The rows that are not dropped: of a CSV those that are not empty, of a  *)
(* sheet those that are not blank.                                         *)
IsFull(f, row) ==
    IF f.ext = "csv" THEN row # <<>> ELSE \E i \in DOMAIN row : row[i] # 0
FullRows(f) ==
    LET order == InOrder({n \in DOMAIN f.rows : IsFull(f, f.rows[n])}, Len(f.rows))
    IN  [n \in DOMAIN order |-> f.rows[order[n]]]

(* The keys of a CSV's rows: a header met before is numbered. *)
UniqueHeader(header, i) ==
    LET before == {j \in 1 .. i - 1 : header[j] = header[i]}
    IN  IF before = {} THEN header[i] ELSE Append(header[i], Cardinality(before))

(* A row by its keys, where the last of a key counts and cells that are    *)
(* missing are blank.                                                      *)
RowDict(header, row) ==
    [key \in {UniqueHeader(header, i) : i \in DOMAIN header} |->
        LET i == Largest({j \in DOMAIN header : UniqueHeader(header, j) = key})
        IN  IF i <= Len(row) THEN row[i] ELSE 0]

(* A row of a sheet: the n blanks it ends in become one cell with the text *)
(* "nullxn", which a cell may hold of itself.                              *)
MarkedRow(row) ==
    LET written == Largest({0} \cup {i \in DOMAIN row : row[i] # 0})
    IN  IF written = Len(row) THEN row
        ELSE Append(SubSeq(row, 1, written), written - Len(row))

ParsedRows(f) ==
    CASE f.ext = "csv" ->
            [n \in DOMAIN FullRows(f) |-> RowDict(f.header, FullRows(f)[n])]
      [] f.ext \in {"xls", "xlsx"} ->
            [n \in DOMAIN FullRows(f) |-> MarkedRow(FullRows(f)[n])]
      [] OTHER -> <<>>

(* The text layer, by pdfplumber. *)
LayerPages(f) ==
    [p \in DOMAIN f.pages |-> PageEntry(p, p, IF f.pages[p].layer THEN "layer" ELSE "nobody")]
HasText(content) == \E i \in DOMAIN content : content[i].by # "nobody"
EmptyPages(content) ==
    {content[i].page : i \in {i \in DOMAIN content : content[i].by = "nobody"}}

(* Pages that became an image are read by OCR and take the place of the    *)
(* entry with their number.                                                *)
Merged(content, images) ==
    [i \in DOMAIN content |->
        IF content[i].page \in images
        THEN PageEntry(content[i].page, content[i].page, "ocr") ELSE content[i]]
CoversAll(content, images) ==
    images # {} /\ Cardinality(images) = Len(content)

(* The text, by PyPDF2: of pages that have some. *)
PagesOfText(f) == InOrder({p \in DOMAIN f.pages : f.pages[p].chars > 0}, Len(f.pages))
TextPagesByPlace(f) ==
    [i \in DOMAIN PagesOfText(f) |-> PageEntry(i, PagesOfText(f)[i], "text")]
TextPages(f) ==
    [i \in DOMAIN PagesOfText(f) |->
        PageEntry(PagesOfText(f)[i], PagesOfText(f)[i], "text")]
TextIsEnough(f) ==
    LET all[p \in 0 .. Len(f.pages)] ==
            IF p = 0 THEN 0 ELSE all[p - 1] + f.pages[p].chars
    IN  Len(f.pages) > 0 /\ all[Len(f.pages)] > EnoughText * Len(f.pages)

(* OCR of the whole document numbers the images poppler made as they come: *)
(* a page it left out moves those behind it to the front.                  *)
ScannedPages(f, images) ==
    LET shown == InOrder(images, Len(f.pages))
    IN  [i \in DOMAIN shown |-> PageEntry(i, shown[i], "ocr")]

-----------------------------------------------------------------------------
UploadInit ==
    /\ posted \in Posted
    /\ work = "receive" /\ temp = "none"
    /\ extracted = <<>> /\ overall = FALSE /\ parsed = <<>>
    /\ status = 0 /\ leftover = "no"

found == <<extracted, overall, parsed>>
onDisk == <<temp, leftover>>

Refused(code) == work' = "over" /\ status' = code
Decided(code) == work' = "remove" /\ status' = code

(* upload() refuses a body whose Content-Length, if it is told, is too     *)
(* much: the file's and up to BodyLimit + 1 of what else is posted.  A     *)
(* request without a file, or that cannot be parsed, is refused too.       *)
BodyLimit == MaxFileSize + Overhead
Receive ==
    /\ work = "receive"
    /\ \/ \E others \in 0 .. BodyLimit + 1 :
            posted.size + others > BodyLimit /\ Refused(413)
       \/ \E code \in {400, 500} : Refused(code)
       \/ work' = "validate" /\ UNCHANGED status
    /\ UNCHANGED <<posted, found, onDisk>>

Validate ==
    /\ work = "validate"
    /\ IF FileFits(posted) THEN work' = "save" /\ UNCHANGED status ELSE Refused(400)
    /\ UNCHANGED <<posted, found, onDisk>>

(* save_temp_file() is called before the try whose finally removes the     *)
(* file: what it wrote before it failed stays.                             *)
Save ==
    /\ work = "save"
    /\ \/ temp' = "whole" /\ work' = "read" /\ UNCHANGED <<status, leftover>>
       \/ Refused(500) /\ UNCHANGED onDisk
       \/ temp' = "part" /\ leftover' = "save" /\ Refused(500)
    /\ UNCHANGED <<posted, found>>

(* Of every file but a PDF. *)
ParseFile ==
    /\ work = "read" /\ posted.ext # "pdf"
    /\ \/ Decided(400) /\ UNCHANGED found
       \/ /\ IsReadable(posted) /\ Decided(200)
          /\ overall' = (posted.ext \in ImageExtensions)
          /\ extracted' = <<PageEntry(1, 1, IF overall' THEN "ocr" ELSE "text")>>
          /\ parsed' = ParsedRows(posted)
    /\ UNCHANGED <<posted, onDisk>>

CheckPdf ==
    /\ work = "read" /\ posted.ext = "pdf"
    /\ IF PdfFits(posted) THEN work' = "layer" /\ UNCHANGED status ELSE Decided(400)
    /\ UNCHANGED <<posted, found, onDisk>>

(* The layer is read.  A document without text goes to process_pdf, and    *)
(* one whose layer cannot be read does so from the except.                 *)
ReadLayer ==
    /\ work = "layer"
    /\ \/ work' = "again" /\ UNCHANGED <<status, extracted>>
       \/ /\ extracted' = LayerPages(posted)
          /\ \/ ~HasText(extracted') /\ work' = "whole" /\ UNCHANGED status
             \/ /\ HasText(extracted') /\ EmptyPages(extracted') # {}
                /\ work' = "augment" /\ UNCHANGED status
             \/ HasText(extracted') /\ EmptyPages(extracted') = {} /\ Decided(200)
    /\ UNCHANGED <<posted, overall, parsed, onDisk>>

(* Pages without text are read by OCR: those that poppler makes an image   *)
(* of.  When anything fails the whole document is read again.              *)
Augment ==
    /\ work = "augment"
    /\ \/ work' = "again" /\ UNCHANGED <<status, extracted, overall>>
       \/ \E images \in SUBSET EmptyPages(extracted) :
            /\ extracted' = Merged(extracted, images)
            /\ overall' = CoversAll(extracted, images)
            /\ Decided(200)
    /\ UNCHANGED <<posted, parsed, onDisk>>

(* process_pdf: the text when there is enough of it, else OCR of every     *)
(* image poppler makes.  When it fails within the try it is called again.  *)
ReadWhole ==
    /\ work \in {"whole", "again"}
    /\ \/ /\ IF work = "whole" THEN work' = "again" /\ UNCHANGED status ELSE Decided(500)
          /\ UNCHANGED <<extracted, overall>>
       \/ /\ TextIsEnough(posted)
          /\ extracted' = TextPages(posted) /\ overall' = FALSE
          /\ Decided(200)
       \/ /\ ~TextIsEnough(posted)
          /\ \E images \in SUBSET DOMAIN posted.pages :
                extracted' = ScannedPages(posted, images)
          /\ overall' = TRUE
          /\ Decided(200)
    /\ UNCHANGED <<posted, parsed, onDisk>>

(* The finally: a failure to remove the file is logged only. *)
RemoveTemp ==
    /\ work = "remove" /\ work' = "over"
    /\ \/ temp' = "none" /\ UNCHANGED leftover
       \/ leftover' = "remove" /\ UNCHANGED temp
    /\ UNCHANGED <<posted, found, status>>

(* The server's process is killed; nothing clears the directory. *)
Killed ==
    /\ work # "over" /\ Refused(0)
    /\ temp' \in IF work = "save" THEN {"none", "part"} ELSE {temp}
    /\ leftover' = IF temp' = "none" THEN leftover ELSE "killed"
    /\ UNCHANGED <<posted, found>>

UploadNext ==
    \/ Receive \/ Validate \/ Save \/ ParseFile \/ CheckPdf
    \/ ReadLayer \/ Augment \/ ReadWhole \/ RemoveTemp \/ Killed

UploadSpec == UploadInit /\ [][UploadNext]_uploadVars

-----------------------------------------------------------------------------
(* The types of one upload. *)
UploadTypeOK ==
    /\ posted \in PostedFile
    /\ work \in {"receive", "validate", "save", "read", "layer", "augment", "whole",
                 "again", "remove", "over"}
    /\ temp \in {"none", "part", "whole"}
    /\ extracted \in Seq([page : Nat, of : Nat, told : BOOLEAN,
                          by : {"layer", "text", "ocr", "nobody"}])
    /\ overall \in BOOLEAN
    /\ status \in {0, 200, 400, 413, 500}
    /\ leftover \in {"no", "save", "remove", "killed"}

Answered == status = 200
IsPdf == posted.ext = "pdf"

(* Only what a file says it is is read as such, whatever libmagic and the  *)
(* client say: the checks before and in the parsers make up for both.      *)
KindsOf ==
    [pdf |-> {"pdf"}, xls |-> {"xls"}, xlsx |-> {"xlsx", "xls"}, doc |-> {"doc"},
     docx |-> {"docx"}, txt |-> {"text", "other"}, csv |-> {"text", "other"},
     png |-> Images, jpg |-> Images, jpeg |-> Images]
Intact(f) ==
    /\ f.ext \in DOMAIN KindsOf /\ f.content \in KindsOf[f.ext]
    /\ f.whole /\ f.size <= MaxFileSize
    /\ f.ext \in {"pdf", "doc"} => ~f.locked
WithinPages(f) ==
    /\ f.ext = "pdf" => Len(f.pages) <= MaxPages
    /\ f.ext \in {"xls", "xlsx"} => f.sheets <= MaxPages
    /\ f.ext = "docx" =>
          /\ f.hints.noted <= MaxPages
          /\ f.hints.xml = "document" =>
                f.hints.rendered = 0 \/ f.hints.rendered < MaxPages
AnsweredAsItIs == Answered => Intact(posted) /\ WithinPages(posted)

(* Poppler left a page out of a scan of the whole document.                *)
PagesSkipped == IsPdf /\ overall /\ Len(extracted) # Len(posted.pages)

(* What is listed as a page was read of that page, unless a page of a scan *)
(* is missing: then of that page or a later one.  Pages are listed in      *)
(* their order and none twice.                                             *)
PagesInPlace ==
    Answered =>
        \A i \in DOMAIN extracted :
            /\ \/ extracted[i].of = extracted[i].page
               \/ PagesSkipped /\ extracted[i].page <= extracted[i].of
            /\ \A j \in 1 .. i - 1 : /\ extracted[j].page < extracted[i].page
                                     /\ extracted[j].of < extracted[i].of
            /\ IsPdf => {extracted[i].page, extracted[i].of} \subseteq DOMAIN posted.pages

(* Of a PDF no page is left out, unless its text was read instead of the   *)
(* pages, and then those that have text are there, or by poppler, and then *)
(* there are fewer entries than pages.                                     *)
Lists(p) == \E i \in DOMAIN extracted : extracted[i].page = p
ByText == \A i \in DOMAIN extracted : extracted[i].by = "text"
NoPageLost ==
    Answered /\ IsPdf =>
        \/ \A p \in DOMAIN posted.pages : Lists(p)
        \/ /\ ByText /\ TextIsEnough(posted)
           /\ \A p \in DOMAIN posted.pages : posted.pages[p].chars > 0 => Lists(p)
        \/ PagesSkipped

(* OCR never replaces text of the layer, and a page of which nobody has    *)
(* read anything is one of a document whose layer was read elsewhere.      *)
LayerIsKept ==
    Answered /\ IsPdf =>
        \A i, j \in DOMAIN extracted :
            /\ extracted[i].by = "layer" /\ posted.pages[extracted[j].page].layer
                  => extracted[j].by = "layer"
            /\ extracted[i].by = "nobody" =>
                  /\ ~posted.pages[extracted[i].page].layer
                  /\ \E k \in DOMAIN extracted : extracted[k].by = "layer"

(* ocr_metadata is of pages that OCR has read, and of the document only    *)
(* when it has read all of them that became an image.                      *)
MetadataIsTrue ==
    Answered =>
        /\ \A i \in DOMAIN extracted : extracted[i].told <=> extracted[i].by = "ocr"
        /\ overall =>
              /\ \A i \in DOMAIN extracted : extracted[i].by = "ocr"
              /\ IsPdf => PagesSkipped \/ \A p \in DOMAIN posted.pages : Lists(p)

(* A cell of a CSV is found under the header of its column, unless a       *)
(* header looks like a numbered one.                                       *)
NoneLooksNumbered(header) ==
    \A i, j, n \in DOMAIN header : header[i] # Append(header[j], n)
CsvCellsKept ==
    Answered /\ posted.ext = "csv" /\ NoneLooksNumbered(posted.header) =>
        \A n \in DOMAIN FullRows(posted) : \A i \in DOMAIN posted.header :
            i <= Len(FullRows(posted)[n]) =>
                parsed[n][UniqueHeader(posted.header, i)] = FullRows(posted)[n][i]

(* A row of a sheet is known from what is parsed of it, blanks included,   *)
(* unless it ends in a text that looks like a marker.                      *)
Unmarked(row) ==
    LET last == row[Len(row)]
    IN  IF last >= 0 THEN row
        ELSE [i \in 1 .. Len(row) - 1 - last |-> IF i < Len(row) THEN row[i] ELSE 0]
SheetRowsKept ==
    Answered /\ posted.ext \in {"xls", "xlsx"} =>
        \A n \in DOMAIN FullRows(posted) :
            LET row == FullRows(posted)[n]
            IN  row[Len(row)] >= 0 => Unmarked(parsed[n]) = row

(* A temporary file is left only where it could not be removed, was not    *)
(* written to its end, or the process was killed.                          *)
LeftoversExplained ==
    work = "over" =>
        /\ temp = "none" <=> leftover = "no"
        /\ Answered /\ temp # "none" => leftover = "remove"
        /\ temp = "part" => leftover \in {"save", "killed"}

(* A response tells of the file what it holds, page by page and cell by    *)
(* cell, and leaves nothing behind (upload, process_upload).               *)
UploadTrue ==
    /\ AnsweredAsItIs /\ PagesInPlace /\ NoPageLost /\ LayerIsKept
    /\ MetadataIsTrue /\ CsvCellsKept /\ SheetRowsKept /\ LeftoversExplained
=============================================================================
