----------------------------- MODULE StaticFiles -----------------------------
(***************************************************************************)
(* src/handler/static_handler.c: files are mapped, remembered in a table,  *)
(* copied and sent.  Files may be written while they are served: static/   *)
(* has a Makefile that writes main.css.                                    *)
(***************************************************************************)
EXTENDS Integers, Sequences

CONSTANTS
    Names,              \* of files and directories under static/
    SuffixOf,           \* the suffix of each name
    Bytes,              \* but NUL, which ends a string
    FileContents,       \* what a file may hold: sequences of bytes and NUL
    PageSize,           \* the size of a page, in bytes
    Directory, Absent,  \* model values
    MaxRequests, MaxWrites    \* bounds

ASSUME StaticAssumption ==
    /\ Names # {} /\ FileContents \subseteq Seq(Bytes \cup {"NUL"})
    /\ PageSize \in Nat \ {0} /\ MaxRequests \in Nat /\ MaxWrites \in Nat
    /\ Directory \notin FileContents /\ Absent \notin FileContents \cup Names

VARIABLES
    files,      \* what each name stands for: a content, Directory or Absent
    step,       \* where the handler is; "idle" between requests, "down" after a crash
    asked,      \* [dots |-> "../" is in the uri, name |-> the file it names]
    file,       \* of this request: "unopened", or what open returned: "open" or "refused"
    fm,         \* Buf_size, see NoFile; its len is the size stat gave
    entry,      \* of static_file_table: the Buf_size that was put in last
    response,   \* or Absent
    requests, writes

staticVars == <<files, step, asked, file, fm, entry, response, requests, writes>>

\* {NULL, 0}: addr is the name of what is mapped.  steady: it was not written since (before
\* it is mapped: what was asked for was not).
NoFile == [addr |-> Absent, len |-> 0, steady |-> TRUE]

---------------------------------------------------------------------------
(* Outside: a request comes, a file is written in place *)

AskFor(dots, name) ==
    /\ step = "idle" /\ requests < MaxRequests
    /\ asked' = [dots |-> dots, name |-> name]
    /\ step' = "check" /\ requests' = requests + 1
    /\ file' = "unopened" /\ fm' = NoFile /\ response' = Absent
    /\ UNCHANGED <<files, entry, writes>>

Unsteady(size, written) == IF written THEN [size EXCEPT !.steady = FALSE] ELSE size

WriteFile(name, content) ==
    /\ step # "down" /\ writes < MaxWrites
    /\ files[name] # Directory /\ files[name] # content
    /\ files' = [files EXCEPT ![name] = content]
    /\ writes' = writes + 1
    /\ fm' = Unsteady(fm, name = IF fm.addr = Absent THEN asked.name ELSE fm.addr)
    /\ entry' = Unsteady(entry, name = entry.addr)
    /\ UNCHANGED <<step, asked, file, response, requests>>

---------------------------------------------------------------------------
(* static_handler and get_static_file *)

Go(where) == step' = where /\ UNCHANGED <<files, asked, requests, writes>>

\* To the handler notFound
ToNotFound == Go("idle") /\ UNCHANGED <<fm, entry, response>>

Crash == Go("down") /\ UNCHANGED <<file, fm, entry, response>>

\* Mutant: the dots are not looked for (FilesServed).
CheckNot == step = "check" /\ Go("lookup") /\ UNCHANGED <<file, fm, entry, response>>

Check == /\ step = "check"
         /\ IF asked.dots THEN ToNotFound /\ UNCHANGED file
            ELSE Go("lookup") /\ UNCHANGED <<file, fm, entry, response>>

\* Hash_map_get.  Every entry is the address of the pair in the frame of get_static_file, a
\* dead one: what is there now is no key of a file, or no address, or still the last pair,
\* with a key in a freed uri, whose memory may be this uri's, whichever file it names.
Lookup == /\ step = "lookup"
          /\ \/ Go("stat") /\ UNCHANGED <<file, fm, entry, response>>
             \/ entry.addr # Absent /\ Crash
             \/ entry.addr # Absent /\ Go("copy") /\ fm' = entry /\ UNCHANGED <<file, entry, response>>

IsFile(name) == files[name] \notin {Absent, Directory}

\* Mutant: one byte more, for a terminator (CrashesOnlyFor).
StSizeAndOne == Len(files[asked.name]) + 1

StSize == Len(files[asked.name])

Stat == /\ step = "stat" /\ UNCHANGED file
        /\ IF ~IsFile(asked.name) THEN ToNotFound
           ELSE Go("map") /\ fm' = [fm EXCEPT !.len = StSize] /\ UNCHANGED <<entry, response>>

\* open, which may fail; mmap of the length that stat gave, and an entry.  A mapping of no
\* bytes fails, which is not noticed.
Map == /\ step = "map"
       /\ \/ file' = "refused" /\ ToNotFound
          \/ /\ file' = "open" /\ fm' = [fm EXCEPT !.addr = asked.name] /\ entry' = fm'
             /\ Go("copy") /\ UNCHANGED response

\* Of the file that is mapped
Content == files[fm.addr]

\* The pages of a mapping or a file of some bytes, in bytes.
Paged(size) == ((size + PageSize - 1) \div PageSize) * PageSize

\* The bytes that can be read at the mapping: a page is filled up with NULs.
Readable ==
    LET mapped == Paged(fm.len)
        there  == Paged(Len(Content))
    IN  [k \in 1..(IF there < mapped THEN there ELSE mapped) |->
            IF k <= Len(Content) THEN Content[k] ELSE "NUL"]

NulAt == {k \in DOMAIN Readable : Readable[k] = "NUL"}

\* What strdup copies: up to the first NUL, or on into what lies behind the mapping.
Copied == IF NulAt = {} THEN Readable
          ELSE SubSeq(Readable, 1, (CHOOSE k \in NulAt : \A l \in NulAt : k <= l) - 1)

\* Mutant: the last byte gives way to the terminator (FilesServed).
SentShort == [k \in 1..fm.len |-> IF k < Len(Copied) THEN Copied[k]
                              ELSE IF k = Len(Copied) THEN "NUL" ELSE "heap"]

\* fm.len bytes of the copy are sent, however long it is.
Sent == [k \in 1..fm.len |-> IF k <= Len(Copied) THEN Copied[k]
                         ELSE IF k = Len(Copied) + 1 THEN "NUL" ELSE "heap"]

Types == [html |-> "text/html", json |-> "application/json", jpeg |-> "image/jpeg",
          jpg |-> "image/jpeg", gif |-> "image/gif", png |-> "image/png",
          css |-> "text/css", js |-> "application/javascript"]

\* Absent is no reply.
ASSUME ReplyAssumption ==
    Absent \notin [body : Seq(Bytes \cup {"NUL", "heap"}), length : Nat,
                 type : {Types[suffix] : suffix \in DOMAIN Types} \cup {"text/plain"}]

MimeType(name) == IF SuffixOf[name] \in DOMAIN Types THEN Types[SuffixOf[name]] ELSE "text/plain"

Respond == /\ response' = [body |-> Sent, length |-> fm.len, type |-> MimeType(asked.name)]
           /\ Go("idle")
           /\ UNCHANGED <<file, fm, entry>>

\* responseSetBody and the headers.  Without a NUL in the mapping strdup goes on behind
\* it, into other memory or into none; pages that the file has no more are not there.
Copy == /\ step = "copy"
        /\ IF fm.len = 0 THEN Crash
           ELSE \/ (NulAt # {} \/ Paged(Len(Content)) >= Paged(fm.len)) /\ Respond
                \/ NulAt = {} /\ Crash

---------------------------------------------------------------------------
StaticInit ==
        /\ files \in [Names -> FileContents \cup {Directory, Absent}]
        /\ step = "idle" /\ asked = [dots |-> FALSE, name |-> CHOOSE name \in Names : TRUE]
        /\ file = "unopened" /\ fm = NoFile /\ entry = NoFile /\ response = Absent
        /\ requests = 0 /\ writes = 0

StaticNext == \/ \E dots \in BOOLEAN, name \in Names : AskFor(dots, name)
              \/ \E name \in Names, content \in FileContents : WriteFile(name, content)
              \/ Check \/ Lookup \/ Stat \/ Map \/ Copy

StaticSpec == StaticInit /\ [][StaticNext]_staticVars

---------------------------------------------------------------------------
(* Properties *)

Answered == step = "idle" /\ response # Absent

IsText(content) == \A k \in DOMAIN content : content[k] # "NUL"

\* A text that is not written meanwhile arrives as it is and with its length, whatever its
\* length is and whatever was asked for before; its type is that of the name asked for.
TextServed ==
    Answered /\ fm.steady =>
        /\ IsFile(fm.addr)
        /\ IsText(Content) => response.body = Content
        /\ response.length = Len(Content) /\ response.type = MimeType(asked.name)

\* It is the file asked for if that was opened, and else one that an earlier request mapped;
\* nothing is answered for a way through "../".
FileMeant ==
    Answered => /\ ~asked.dots
                /\ IF file = "open" THEN fm.addr = asked.name ELSE fm = entry /\ requests > 1

\* If the process serves on, a file that can be opened is answered for.
FoundUnlessRefused ==
    requests > 0 /\ step = "idle" /\ response = Absent /\ fm.steady =>
        asked.dots \/ ~IsFile(asked.name) \/ file = "refused"

\* static_handler.c: what is sent of files, and when.
FilesServed == TextServed /\ FileMeant /\ FoundUnlessRefused

\* What the process dies of: an entry of an earlier request, a file that is empty or fills
\* its last page, a file that is written after it was looked at.
CrashesOnlyFor ==
    step = "down" => IF fm.addr = Absent THEN entry.addr # Absent
                     ELSE fm.len % PageSize = 0 \/ ~fm.steady
=============================================================================
