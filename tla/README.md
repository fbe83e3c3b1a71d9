# Facebooc in TLA+

Facebooc is a small social network in C: one single-threaded process that
reads HTTP requests with epoll, runs a handler per request and keeps everything
in one SQLite file. This directory holds TLA+ modules that model it, TLC
configurations that check them on small instances, and proofs for TLAPS of what
holds for every value of the constants. Paths below are relative to the
repository's root.

    tlc -config social.cfg MCFacebooc.tla       # any .cfg, with the MC module of its part
    tlapm FaceboocProofs.tla                    # the proofs, any ...Proofs.tla

`PROJECT.json` names the MC module of each run, the lines each definition
stands for, the hazards with the properties about them, and the findings.

## 1. The system

| Component | State | Operations | Interacts with |
|---|---|---|---|
| Event loop (`src/server.c`) | epoll set, listening socket, sockets under way | `serverServe`, `handle` | calls parser, routing table, handlers, `responseWrite` |
| Routing table (`src/hash_map.c`, `src/facebooc_server.c`) | hash table path -> handler | `Hash_map_insert/get/erase`, growth | filled by `FB_new`, read by `handle`; the same code holds the values of templates and the file cache |
| Request parsing (`src/request.c`, `src/http/`, `src/string_view.c`) | the `Request` of one call | `requestNew`, query, body, headers, cookies | called by `handle`, read by handlers |
| Handlers (`src/handler/*.c`) | none of their own | one per page or link | call models, templates, responses |
| Models (`src/models/*.c`, `src/db.c`) | the SQLite file: accounts, sessions, posts, connections, likes | one or two SQL statements each | called by handlers |
| Session ids (`src/utility.c`) | the static call counter and the load address of `get_rand` | `gen_random_dummy_string` | called by `sessionCreate` |
| Responses (`src/response.c`, `src/http/header.c`, `src/http/cookies.c`) | the `Response` of one call, static `RESP_SIZE` | `responseNew*`, `responseAddCookie`, `responseWrite` | built by handlers, written by `handle` |
| Static files (`src/handler/static_handler.c`) | a cache from path to content | `static_handler` | uses the hash table |
| Templates (`src/template.c`) | the values of one template, shared with what it includes | `templateSet`, `templateRender` | handlers; the hash table |
| Page fragments (`src/handler/*.c`) | buffers on the stack | `snprintf`, `strftime` | handlers |
| Search (`src/handler/search.c`) | none | `search`, `accountSearch` | Base64, the accounts table |
| Text helpers (`base64.c`, `utility.c`, `basic_string.c`) | none beyond a call | coding, searching, escaping | parser, handlers and models |
| Containers (`list.c`; `map.c`, `rbtree.c`, which the server does not use) | per call | insert, iterate, delete | posts and accounts lists |
| Process (`main.c`, `src/facebooc_server.c`, `docker-compose.yml`) | the global `fb`, running or not | start, SIGINT/SIGTERM, `restart: always` | owns all of the above |

**What is hard here.** The server runs one handler at a time, so nothing
interleaves *inside* a handler, with three exceptions: the kernel's sockets go on
beside the loop, files are written beside the file handler, and the signal
handler runs in the middle of anything and frees what it interrupts. What
interleaves outside is requests: two tabs with one cookie jar, two members,
requests that wait in a socket while the world changes, links that write on GET
and are reloaded, browsers that go away. Every SQL statement commits by itself
and every handler writes at most once, so a process that dies leaves either a
request without effect or an effect without a reply, and the browser asks again.
The file and the cookies outlive the process; the counter behind session ids
does not. No foreign key is declared and only `accounts.email` is UNIQUE. The
rest is C: text of any length in buffers of a given one, strings that are copied
by one function and moved by the next, loops over text that have to end because
no other thread serves anybody meanwhile.

**What makes each component correct.**

- *Handlers and models together*: the members see a social network in which
  likes and connections are sets, pages are newest-first parts of what the
  reader may see, posts repeat on dashboards only, and only the one who asked acts (`Social`); an
  answered link has been done (`AnswerMeansDone`); rows refer to rows that exist (`NoOrphans`);
  emails are unique (`EmailsUnique`).
- *Sessions*: a cookie in a browser or under way stands for an account
  (`CookiesHonoured`); a stored id never changes the account it stands for,
  though restarts draw the same ids again (`SidStable`); a login is recorded for
  the account that was named (`LoginMatches`).
- *Event loop*: descriptors neither leak nor are shared (`FdsExact`); events mean
  what they say when they are looked at (`EventsAreFresh`); a client gets its own
  reply (`OwnReply`); no wake-up is lost (`NobodyForgotten`, `EveryConnectionEnds`).
- *Hash table*: a map that holds each pair once and keeps it through growth
  (`TableSpec`, `EveryEntryFound`); an erase takes nothing else along (`EraseKeepsOthers`).
- *Parsing*: handlers read what browsers sent (`FieldsAsSent`, `HeadersAsSent`,
  `RoutedAsSent`), a cut request is not read as another, nor as what an earlier one left
  in the buffer (`CutNeverInvents`), and parsing ends (`CallsReturn`).
- *Responses*: what arrives is what was put together (`ArrivesAsSet`); every
  string has one owner (`OneOwner`); headers stay in their buffer (`WritesInside`).
- *Templates*: a page is what its files mean (`RenderedAsWritten`), the shared
  values live as long as they are looked at (`ContextOwned`).
- *Texts*: stored text reads back (`CodedAndBack`, `ShownAsEntered`), buffers are as
  large as what is written (`InBounds`, `PiecesPrinted`), separators are found
  (`FirstFound`), people too (`FoundWhenAligned`).
- *Files*: a file that can be opened arrives, whole and with its type, and only a file does
  (`FilesServed`); what else happens has a named cause (`CrashesOnlyFor`).
- *Process*: each request is answered or reset (`EveryRequestEnds`), a signal ends the
  process in order but for the named cases (`DiesOnlyFor`, `CallsReturn`).

## 2. Modules

| Module | Stands for |
|---|---|
| `FaceboocDB` | every SQL statement the handlers run but the search, as an operator on table values |
| `Utility` | `get_rand` and `gen_random_dummy_string` |
| `Facebooc` | the running site: browsers, process, file. One action per handler |
| `Social` | abstract specification: the network as its members see it |
| `FaceboocProps` | the properties, and the refinement mapping onto `Social` |
| `EventLoop`, `EventLoopProps` | `serverServe` and `handle` with kernel and clients; the properties |
| `HashMap`, `HashErase` | `hash_map.c`, and erasing, which no caller does |
| `Table` | abstract specification: the map `hash_map.h` describes |
| `HttpRequest`, `HttpRequestProps` | `requestNew`, the parsers, what `handle` and `helper.c` read; the properties |
| `Reply`, `ReplyProps` | responses, headers and cookies with their strings on the heap; the properties |
| `Message` | abstract specification: the reply a browser reads |
| `CText` | `strchr` on texts of tokens, and joining the parts of a text |
| `Template`, `TemplateProps` | `template.c`; what a page means |
| `StaticFiles` | `static_handler.c`, with somebody writing files |
| `Base64Code`, `Base64` | the code as functions; the loops of `base64.c` |
| `Search` | the search page and its query, over encoded columns |
| `Fragments` | the lengths of all that handlers print into buffers |
| `PostText` | the way of a post: escaped, stored, read, line ends replaced |
| `BoyerMoore` | `find_first_of` |
| `Lifecycle` | `main.c` and the signal handler |
| `TemplateForm` | what a part of a template file looks like, and which files are regular |
| `SampleRequests`, `SampleTemplates`, `SamplePeople` | the requests, files and members of the small instances |
| `MCFacebooc`, `MCEventLoop`, `MCHashMap`, `MCReply` | small instances for TLC |
| `MCParts` | small instances of all the parts that share nothing |
| `LeastNumber` | least numbers, steps of recursive functions and sums, as facts about sets |
| `FaceboocProofs`, `EventLoopProofs`, `HashMapProofs`, `ReplyProofs` | proofs about the module they are named after |
| `PartsProofs` | proofs about `PostText`, `Base64`, `Search`, `Fragments`, `StaticFiles` and `Lifecycle` |
| `RequestProofs` | proofs about `HttpRequest` and `BoyerMoore` |
| `PageProofs` | proofs about `Template` |

How they go together: `EventLoop` shows that each connection gets one call of a
handler at most and its own reply, `HttpRequest` that this handler reads what was
sent, `Facebooc` takes both for granted and says what handlers do, and `Reply`,
`Template`, `Fragments` and `PostText` what becomes of the text they answer with.
`HashMap` is behind all the `Hash_map`s of the others, which use what `Table`
promises, or, where it matters (`Template`, `StaticFiles`), what the code does
beyond that promise.

`HttpRequest`, `Template`, `StaticFiles`, `Base64`, `Search`, `Fragments`, `Lifecycle`, `PostText`,
`BoyerMoore` and `HashErase` are each a call, or the calls of one handler,
that depend on their arguments only; there is one thread, so no two of them are
under way at once but by nesting. `MCParts` therefore checks them side by side:
`part` is chosen at the beginning, the variables of the others are idle, and a
behaviour is one of the chosen part. It extends all of them, so the
properties that it checks are the very definitions that the theorems are about.
Its properties are those that the modules state; `CallsReturn` says of all the loops at once that
they return.

Operators marked *Mutant* are bugs next door: put in the place of the operator
they precede, they break the property that is named with them. They show that
the property depends on that piece of code, and no action uses them.

### 2.1 Correspondence with the code

**Facebooc.** `Facebooc` has the five tables of `initDB` as variables. Ids are INTEGER
PRIMARY KEY and nothing deletes accounts, sessions or posts, so these three are
sequences and an id is a position. Likes and connections are bags of pairs: of
their rows the code only ever asks whether and how often they are there.

`server` is whether the process runs (`up`), was ended by a signal (`stopped`) or
by its own fault (`aborted`). `base` is the address `get_rand` was loaded at and
`counter` its static variable. `clock` is `time(NULL)`. `jar` is each browser's `sid`
cookie. `tab` is each tab's request: `idle`, `sent`, `abandoned` (the reader went
away, the request is still in the socket), `replied`, `lost` (connection reset).
A request carries the cookie the browser had *when it was sent*.

A handler is one action: it reads, writes at most one row set, and replies. This is
sound because `handle` runs it to its end before the next event is looked at,
no other process opens the file, and there is at most one write. `Reply` is
the only place inside a handler where the process can die with an effect left
behind: after the write and before the reply, by SIGTERM or by the SIGPIPE of
`send`. `Stop` is a signal at any other moment. `Die` resets whatever had not
been answered.

`UnreliableTables` names the tables whose INSERT or DELETE may return something
else than SQLITE_DONE. What the code does then is modelled as it is: signup,
post, like, unlike and connect redirect as if nothing had happened; login shows
the error page after a second `free` of the form's strings, which the allocator
may turn into an abort.

`FormValid` in `Signup` is a disjunction because the code's `valid` is set to true
by each field that passes and never back to false. `GraphRows` counts the
joined rows of `postGetLatestGraph`, and `FirstPage` is the sequence of posts that LIMIT
lets through, one for each row: `concat_posts` prints an entry for each, so that a
dashboard lists a post once for every connection that its join finds. `Social` says where
that may happen: on a dashboard, for a post whose author somebody follows, and in a row.
`Auth` and `LoginAccount` are separate because `account_auth` and
`sessionCreate` ask different queries.

`Utility` computes session ids as the code does, with products that wrap. In the
code a word has 64 bits, the table 64 letters, and an id 64 of them. The runs use
a word of 256, 4 letters and ids of 3. Both are powers of two with the table
size dividing the word, which is all the arithmetic depends on. Address 36 is a
multiple of the table size: every letter is then the table's first, whatever the
counter. At 43 ids of one process differ for a while. Both happen with the real
function: aligned to 64 its ids are all equal, and otherwise they repeat after
some tens or hundreds of logins.

**EventLoop.** One system call is one step, so clients and the kernel act between
any two. Data is counted in units: a request has `RequestLen` of them, the first
`HeadLen` its head. `armed` holds descriptors whose EPOLLONESHOT registration is
alive, `ready` is epoll's list of those with an event, `batch` what one
`epoll_wait` returned and the loop has still to look at; the listening socket
is edge-triggered, so it comes to `ready` when a connection arrives and not
again because one is left. `handle` is `Recv` (parse, handler and all, which
touches no socket), then one `Send` per call of `send` in `responseWrite`, each
of which takes what the socket has room for, then `Close`. SIGPIPE and EMFILE end
the process, and `Start` brings it back.

**HashMap.** `entries` and `new` are the slots in use of the table and of the one
that `hash_map_expand` fills, one entry per step. The two insertions differ as in
the code: `Hash_map_insert` copies the pair, `Hash_map_insert_move` keeps the caller's
and compares pointers. A capacity is a `size_t`, so doubling wraps at `SizeMod`, where the
table refuses what it is given. `Contents`, what `Table` sees of it, counts how many slots
a pair is in; `Table` has each pair once and refuses a pair for two reasons only, those
of `hash_map.h:21` and `:24`: it is there, or there is no room for more. `GivenAgain` is
whether a caller gives a pair that is there. The routing table and templates never do,
the file cache does with its local variable, and the header's promise holds without (`tables`)
and not with it (`inserted_twice`).

**HttpRequest.** Text is tokens: a word, a separator, an escape such as `%26`.
`sent` is the request as the browser means it, `RequestText` what it writes of it, and `got`
what `recv` returned, all of it or a beginning. `rest` is what is not read yet, `todo` the
same of a query or a form. `stage` is where `requestNew` is, and loops take one turn per
step. Values of fields are free text with spaces, `=` and `&`: forms are decoded before
they are cut, so a value with `&` arrives up to it, which is what `Arrived` says.

A cut request is read on behind the terminator where the code does so: where the text
ends within the request line, or with a line, what comes next is one of the
texts of `Leftover` (`behind` remembers that), among them the headers and the form of an
earlier request, and the handler runs with what is read there. What is undefined beyond
that (a write through the pointer that `find_first_of` did not return, `sid` missing
among cookies, `get_id` without a slash) is the outcome `crashed`; an id of ten digits
or more overflows `get_id`'s buffer of ten (`IdBuffer`, as in the code), and either that
crashes or `atoi` reads on into what follows. `req` is the `Request` and what `helper.c`
reads out of it. `Sendable` are the requests that browsers send, `Cut` those of which
`recv` may return a part; `HttpRequestAssumption` and `BrowserAssumption` say what the
site's own pages, links and cookie make of them.

**Template.** `stack` holds the running calls of `templateRender`, each with what is
left for `strtok_r`. `context` is the table of values, in the order of the calls
of `templateSet`, shared by the nested calls. The last byte of a file is lost
to `readfile`'s terminator, the character behind a construct is dropped,
constructs side by side are misread and an empty file ends the process:
all of this is in the model, and `Regular` names the files for which the page
is right, those of `templates/` among them: no braces but those of constructs, no
space in what a `when` compares, and a blank behind each include and `when` unless it is
the last. The last character of a file is lost whatever it is, and the meaning of a file
is without it where it ends in text: of `login.html`, which has no line end behind
`</body>`, that is the `>`, of the others the line end. Where a file ends in a construct, as
`dashboard.html` and `search.html` do, it is the construct's last brace, which nothing looks at.

`templateSet` puts a second value of a key behind the first, where it is not found, though
`template.h:12` says that it overwrites. `login` sets `usernameError` twice when the name is
missing (`login.c:30` and `login.c:73`), so handlers may set a key again in the model, the
meaning of a page takes the last value, and `RenderedAsWritten` is about handlers that set no key to
two values. `SetOverwrites` is the header's statement, which fails (`set_again`). What a page means
is `Meaning`, the parts of its file one after the other, where an include means what its file does:
a function of how deep includes are followed, and on files that do not include themselves (`Nested`)
nothing is deeper than there are files.

**Reply.** `heap` and `live` are strings on the heap, `headers`, `cookie` and `body`
refer to them by block, as pointers do. What a function copies gets a new block;
what it moves keeps its own.

**StaticFiles.** Each system call of the handler is a step and files may be written
between any two. Bytes behind the file in its last page are zero; a mapping of
whole pages has nothing readable behind it. `open` may fail though `stat` did not (a file
that is not readable, no descriptor left), and then the handler answers as for a file
that is not there (`file`). All entries of the cache are the address of the pair in the frame
of `get_static_file`, with a key in the uri of the request that put it there: both are
gone when the next request looks them up. What it finds is up to the build and the calls
between, so `Lookup` has all outcomes: nothing, a fault, or the last pair still intact,
which makes the handler answer with the file mapped last (`entry`), whatever was asked
for. `FileMeant` says that it is one of the two. A name with an unknown suffix is
`text/plain`.

**Search.** The table holds Base64, and the query is encoded without padding and put
into LIKE, which folds the case of letters. Hits that only share letters by
that folding are in the model, as in the code.

**Fragments.** Of every piece printed, what it would be long, what `snprintf` was told,
and what the buffer holds. Lengths of names and emails are those that `signup.c`
means to allow (its `valid` can be overruled by a field that passes; then the two
buffers that hold a name do not hold it either). The time of a post is left out.

**PostText, Base64, BoyerMoore.** One turn of a loop to a step. In `BoyerMoore` the
table is indexed by a signed char, so for a byte of UTF-8 something else is
read, `Stray`. `HttpRequest` takes from it what holds for ASCII text.

**Lifecycle.** `main` is the statement that main is at, `busy` whether it is within
the allocator, `frames` the calls of the signal handler on top of it, which
SIGINT and SIGTERM can nest.

### 2.2 Abstractions

- In `Facebooc`: Base64 of stored text and SHA-256 of passwords are injective on
  the values compared, so values stand for their codes (`Base64` checks the
  first). Passwords, emails and names come from small sets; `GoodEmails` and so
  on are those that pass signup's syntactic checks. Rows of one second come in
  scan order; `Social` leaves it open. Post bodies are `empty`, `fits` or
  `tooLong`. Where a redirect leads, and the text of pages, are left out: a page
  is the sequence of posts it lists, each Like or Liked, and whether it says Connected.
  Requests are those the site's own pages and links make. Listings are read at
  page 0. The `int` counter of `get_rand` does not overflow. Cookies expire at
  any time.
- In `EventLoop`: one connection per client, as every reply closes it. What a
  handler computes is left out.
- In `HttpRequest`: words have no length, so `dir[32]` of `handle` cannot overflow.
  Behind the terminator of the receive buffer is one of a few texts (`Leftover`), which
  the browser of this request did not write.
- In `StaticFiles`: files are written in place and not removed. What is left of a cache
  entry is whole or of no use: half of one is a fault.
- In `Reply`: numbers and times of headers are tokens.
- In all: `malloc` finds memory.

## 3. What TLC checks

| Run | Instance | Shows |
|---|---|---|
| `accounts` | two tabs, one jar; emails that clash, one account there, empty passwords; both addresses; failing session INSERT; 3 requests | `TypeOK`; no order of signups, retries and restarts makes two accounts share an email; a stored id keeps its account; no cookie dangles; each login is recorded for one with the name and password given |
| `social` | ann and bob signed in in their own browsers, a full page by ann there; post, like, unlike, connect (also twice, also to oneself), dashboard, profile; 2 seconds, 3 requests, pages of 2 | every step is a step of `Social`: duplicate like rows never show, every page is a newest-first part of what its reader may see, and repeats what it may; an answered like, unlike or connect has been done |
| `answers` | a member and a stranger; every kind of request, every failing write; 2 requests; fair | each request is answered or reset; rows refer to rows |
| `connections` | three clients, two descriptors, a backlog of 1, two events per wait, replies in two sends, a socket that takes less; accept failing in all ways | descriptors, events and replies never get mixed up |
| `every_connection` | two clients and descriptors, one event per wait, requests in two parts, accept failing with EAGAIN only; fair | epoll still holds an event for everybody who waits; nobody who sent something or hung up is kept waiting |
| `tables` | four keys, hashes that are equal, meet, and wrap; four slots, growing once, 16 the overflow; gets, both insertions, each of a pair of its own | a table of `Table`; every entry on its probe path |
| `replies` | a cookie with an attribute and headers, up to four calls for each of two replies | strings have one owner; headers stay in their buffer; what arrives is what was set: refines `Message` |
| `parts` | each of the parts below by itself; fair | what its modules state, and that every call returns |

The parts of `parts`:

| `part` | Instance | Shows |
|---|---|---|
| `request` | queries and forms of up to two fields, five links, headers in several spellings and orders, other methods and versions, values with `=` and `&`, ids of nine and ten digits; a few more, whole and cut at every place, with five texts that may be behind the cut | handlers read what was sent (`FieldsAsSent`, `HeadersAsSent`, `RoutedAsSent`), a cut one makes nothing up (`CutNeverInvents`), every loop ends |
| `template` | files of up to three parts, including one another two deep; up to two values set, of one key or two, some with braces; odd files | a page is what its files mean (`RenderedAsWritten`); values are freed once (`ContextOwned`); rendering ends |
| `static` | two names; files of 0 to 3 bytes at pages of 2, with a NUL, missing, directories, refused by `open`; one write, two requests | texts arrive whole, only files do, and the one asked for or one that was mapped before (`FilesServed`); the named causes of death only (`CrashesOnlyFor`) |
| `base64` | all texts of up to 4 of five bytes, of up to 7 of two | encoding is Base64, and decoding takes it back (`CodedAndBack`) |
| `people` | up to three accounts of people whose names contain each other, eight queries, pages of 2 | who is asked for by an aligned part is found (`FoundWhenAligned`) |
| `pieces` | names, emails, posts and ids at every length that changes something | pieces are whole and fit, but for the named ones (`PiecesPrinted`) |
| `process` | two signals at any statement, in the allocator, in each other's handler; three requests | each object is freed once but for the named cases (`DiesOnlyFor`); the process ends |
| `post` | all texts of up to 4 of six characters (of 3 are accepted) | both passes fill what they allocated (`InBounds`); the page shows what was entered (`ShownAsEntered`) |
| `find` | all texts of up to 5 of three bytes, separators of up to 3, and none | the first match is found (`FirstFound`), nothing is read behind the end (`ReadsInside`), the search ends |
| `erase` | four keys, three of which meet; moving insertion and erasing | an erase takes pairs of its key only (`EraseKeepsOthers`) |

**Bounds.** *Facebooc:* `MaxRequests` counts submissions and retries. Three are enough
for a signup, a signup that clashes with it and a login; for two logins across a restart,
which draws the first ids again, and a logout; for like, like again and unlike, which
would leave a row; for connect, connect again and a dashboard. Pages have two
rows (the code: ten) so that a page overflows; the page size only appears as
LIMIT. `MaxClock` 1 gives posts of different seconds and of the same one.
*EventLoop:* three clients and two descriptors make a descriptor be reused and one
be missing; `EpollNum` 1 or 2 (64) leaves events for the next wait; `Backlog` 1
(as `listen` is told) or 2; requests of one or two units against a `BufSize` of
two, replies of two to four sends against a `SndBuf` of 2, less than a reply, so
that both ends cut. *HashMap:* `InitCap` 4 (64) reaches a growth with three keys and
`SizeMod` 16 (2^64) the overflow at the next. *HttpRequest:* two fields suffice for
order, repetition and the last of a list; the requests of `Cut` have a query, a form or
neither, and each is cut at every token; `Leftover` has no text, parts of a line, a form, and
headers with a form and with a cookie; `IdBuffer` is the code's 10, met by ids of nine and ten
digits. *Template:* `MaxSets` 2, for one key or two, values of two kinds. *Reply:* `MaxBlocks` 9 is
more than `MaxCalls` 4 allocate; `InitialSize` 9 (2048) holds one header and not two; `MaxReplies` 1
is the number of replies after the first. *StaticFiles:* `PageSize` 2 (4096), so that files end
before, at and after a page's end; `MaxRequests` 2, one that fills the cache and one that asks it
and may be given what the first mapped; one write falls between any two steps of them. *Search:*
`Limit` 2 (10) of up to three accounts. *PostText:* `MAX_BODY_LEN` 4 (65536); three characters hold
two to be replaced with one between, or next to each other. *BoyerMoore:* `MaxLen` 5 is room for a
separator of three behind one that fails, and for one of two with two moves; the code looks for
separators of one and two. *Fragments:* lengths 0, 24 and 50 for names, 3 and 50 for emails, the
longest a post can become by escaping, and ids of one, two, four, nine and ten digits. `connections`
uses that clients can be exchanged (`Permutations`), which is sound for invariants; no run with a
temporal property uses symmetry.

**Deadlock** is checked in the runs of `EventLoop` and in `tables`, whose systems never
stop. It is not elsewhere: browsers stop asking at `MaxRequests`, handlers stop calling
at `MaxCalls`, and the calls of `parts` return.

**Fairness.** `Facebooc`: the handler of each tab's waiting request is weakly fair,
since the loop comes back to `epoll_wait` after every handler and takes every
ready descriptor of its batch, and no handler blocks; `Start` is weakly fair
because `docker-compose.yml:9` says `restart: always`; nothing is assumed about
browsers, signals or failing writes. `EventLoop`: the loop's own steps (`Serve`) and
`Start` are weakly fair, for the same reasons, and nothing clients do is.
`MCParts`: `Proceed`, which is
that the one thread goes on with the request it parses (one of `Cut`, whole or not), the page it
renders and the separator it looks for, and the kernel with the signal handler it has started. The
calls under fairness take turns of one loop each, so a loop that did not end would be a behaviour
that never returns. A crash is an end here as well: `CallsReturn` is about loops, and which calls
crash is what the other properties and the list below say.

**Where the code does not do what it says**, a run that TLC ends with a violation (the
quotations are in `PROJECT.json`):

| Run | Property | What happens |
|---|---|---|
| `same_session` | `SidsUnique` | `get_rand` takes a product of its address modulo its address; loaded at a multiple of the table size all ids are equal, `sessions.session` is not UNIQUE, and the second member is served as the first. The comment in `include/utility.h:67` asks for ASLR only |
| `missing_friends` | `DashboardShowsFriends` | connections made *to* the reader repeat the reader's own rows and push a friend's post off the page |
| `inserted_twice` | `TableSpec` | `hash_map_move_entry` does not compare the slot it begins at, so a pair that is there is put in again and 1 returned, against `include/hash_map.h:24` |
| `set_again` | `SetOverwrites` | of two values set for a key the page shows the first, against `include/template.h:12`; `login` without a name is such a page |

The models do what the code does in other places where one may expect something
else. They have no run of their own; the properties are stated so that these are
visible as their exceptions.

- Accounts: one good field of a signup overrules "This username is taken."
  (`handler/signup.c:46`), and of two accounts with one name only the first can log in
  (`Auth`). A login whose session cannot be stored frees the form's strings twice
  (`handler/login.c:73`).
- Pages list a post as often as the dashboard's join has it (`models/post.c:148`), which is
  once for each connection made to the reader, or by the reader to its author.
- Requests: what one `recv` returned is taken for the request (`server.c:135`), and where it
  ends with a line or within the first, what is in the buffer behind it is read as well. What a
  full socket does not take of a reply is never sent (`response.c:163`). Forms are
  decoded before they are cut at `&` and `=` (`http/body.c:45`), so a post with `&` arrives up to
  it. Of two cookies one is cut and one not read, and cookies without `sid` end the process
  (`handler/helper.c:12`).
- Templates: the last character of a file is lost, and of `login.html` that is not a line end
  (`template.c:167`). An id of ten digits loses one (`handler/profile.c:37`); a long name overflows
  the profile's buffer and a long name and email the row of the search page. Posts are shown at
  hours up to 31 (`handler/dashboard.c:90`). Parts of names are not found for their Base64.
- Files: a file is sent up to its first NUL and then something else follows; the cache
  points into a frame that is gone, so that a request may get the file of an earlier one, or
  end the process.
- Tables: erasing a key whose home slot holds another key never returns, an erase may
  leave a gap in another key's probe path, `len` counts replacements and never goes down. The server
  only inserts and asks.
- Search for separators: a byte of UTF-8 indexes in front of `badchar`, so the end of a line
  may be missed.

## 4. What is proved

All theorems hold for every value of the constants that satisfies the named
assumptions of the modules, which are their types and what the code's own
constants satisfy; TLC evaluates them in every run. For `Facebooc` that is any
tabs, browsers, values, addresses, word and table sizes, bounds, and any seed
that satisfies `SeedAssumption` (a file as earlier runs leave it).

**The site** (`FaceboocProofs`)

| Theorem | Argument |
|---|---|
| `TypeCorrect` | `TypeOK` is inductive: one step per action, on the file, the process and the browsers separately |
| `NoOrphansHolds` | ids in new rows come from rows just read, and rows are never removed |
| `EmailsUniqueHolds` | the only statement that adds an account refuses an email in use |
| `SidStableHolds` | tables only grow at their end (`FileStep`), and the account of an id is that of the *first* row bearing it, so a later row with the same id changes nothing (`RowsKept`) |
| `CookiesHonouredHolds` | every sid comes from the jar, or from a reply whose row was stored before (`CookieSources`); with `SidStable`'s argument it still stands for an account |
| `LoginMatchesHolds` | the row stored with the reply is of `LoginAccount`; rows and accounts do not change |
| `AnswersMeanDone` | if `LinksWritten`: the action that replies has put or removed the pair, and there is no other step between |
| `AlignedAddressOneId` | with the address and the word's size multiples of the table's size, the product and both remainders are such multiples, whatever the counter: every letter of every id is the table's first |
| `SocialSpecHolds` | every action maps to one of `Social` or to a stutter, given `SiteInv` |

`NoOrphans` and `CookiesHonoured` are not inductive without `TypeOK` and each other:
that a session's account exists is what makes a first row an account. `SiteInv`
is the three together. The longest part of the refinement is that a page is
what `Social` allows (`FirstPageFair`, `DashboardFair`): each row is of the one post whose
rows begin before it and end behind it (`RowPlaces`), so LIMIT of the joined rows is
newest first, has the rows of a post side by side, leaves out only what is no newer than
all it shows, and repeats a post only if the join does. `LinksWritten` says that writing likes and
connections does not fail: `like.c`, `unlike.c` and `connect.c` redirect even if it did, so that
without it the statement is false.

**The loop** (`EventLoopProofs`)

| Theorem | Argument |
|---|---|
| `DescriptorsExact`, `BatchIsFresh` | follow from `LoopInv` |
| `NoConnectionIsForgotten` | `Watched`, a part of `LoopInv` |
| `NobodyIsForgotten` | if not `AcceptMayFail`: `Called`, that a queue is announced, is inductive beside `LoopInv` |
| `RepliesAreOwn` | if `HeadFits`: `Written`, that a socket holds what the pieces before add up to, is inductive beside `LoopInv` |

`LoopInv` is: descriptors belong to one open connection each (`Owners`); what is on the
ready list is armed, what is in the batch is not, and neither has anything
twice (`Pending`); a reply that is under way is for the event at the head of the
batch (`Writing`); and each connection is armed or in the batch, and on the list
if it has something to read (`Watched`). `FdsExact` and `EventsAreFresh` are not
inductive without the other parts: a descriptor that was closed within a batch
must not come back in it. The two hypotheses are what the code needs. An `accept`
that fails while somebody waits ends the loop over the queue, and the
edge-triggered listener does not announce it again: a behaviour without
`NobodyForgotten`; what is left without the hypothesis is `NoConnectionIsForgotten`.
A socket whose room ends within the head of a reply takes the start of the body
after the gap, since `responseWrite` does not look at what `send` returns: a behaviour without
`OwnReply`. `HeadFits` says that all pieces but the last fit an empty socket, which a
status line and headers of at most some hundred bytes do.

**The table** (`HashMapProofs`)

| Theorem | Argument |
|---|---|
| `TableTypeCorrect` | slots in use are at most `len`, or while growing at most the loop's index, so half of the table stays free |
| `EveryEntryFoundHolds` | an entry is put at the *first* free slot from its home and nothing frees a slot, so all slots before it stay in use |
| `TableRefined` | if not `GivenAgain`: no pair is in two slots, nor in one when its insertion begins (`OnceEach`), so an insertion that is carried out adds it and one that fails found no room; contents stay the same while entries move, one by one; with the probe path a get finds the pair or stops at a free slot, where no pair of the key can be |
| `EraseKeepsOthersHolds` | `Kept`, what is left of the table's shape with erasures, is inductive; what moves into the hole is the last of a run of entries with the hash of the key, and no pair is left out but the erased one |

The first three are about gets and insertions, which are all that `src/` does.
With `HashErase`'s calls they are false: a gap in a probe path is what
`EveryEntryFound` excludes. `EraseKeepsOthersHolds` is about both.

**Replies** (`ReplyProofs`)

| Theorem | Argument |
|---|---|
| `OneOwnerHolds` | each action moves, copies or frees; blocks it allocates were not live |
| `WritesInsideHolds` | what is written is within the capacity, and a doubling adds at least `InitialSize`, which no entry exceeds |
| `ArrivesAsMeant` | if `TextsApart`: replies implement `Message`, with `TypeInv`, `OneOwner`, `BufferInv`, `TextInv` and `WireInv` as the invariant |

`TextInv` says that the strings on the heap are those that handlers pass, and cookies
made of them; with `OneOwner`, a string that is still referred to has not been
written over. `WireInv` says that what is written so far is a status line and one line
for each header listed, so that the reader's cuts (`CutAt`) fall where they were
made. `TextsApart` is that no text of a handler contains what separates the parts of a
head, `": "`, `"; "`, an attribute's name or a line end: nothing in the code
escapes them, so a text with one of them is read as something else. All
handlers pass literals, session ids and dates there.

**Texts** (`PartsProofs`)

| Theorem | Argument |
|---|---|
| `InBoundsHolds` | the counter is the number of marked characters passed, what is written is that many replacements longer than what was read, and the two loops pass the same text |
| `ShownAsEnteredHolds` | `ShowInv`: the stored text has the entity of each character at the place that the lengths before it add up to, and so has the page; replacing line ends finds no character of an entity, so the two passes do not get in each other's way |
| `CodedAndBackHolds` | `CodeInv`: `q` rounds of `base64_encode` have written the quadruples of the first `q` triples (`Quads`), and those of `base64_decode` their bytes (`FirstBytes`); the rest of one or two bytes is what the padding says. A triple is got back from its quadruple by arithmetic on quotients and remainders of 64, 16 and 4 (`TripleCut`, `QuadCut`) |
| `FoundWhenAlignedHolds` | `TableHolds`: the table has the code of what was given. A text that stands in another from a multiple of three on has its code in the other's (`AlignedIsLike`), so LIKE finds it; a page of different rows without it that is not full would have fewer rows than there are hits (pigeonhole) |
| `PiecesPrintedHolds` | a number that an `int` holds has ten digits at most, and each piece is shorter than what its `snprintf` was told |

`FragmentsAssumption` allows names and emails of up to 50
characters, which is what `signup.c` means to allow, and any `int`.

**Requests** (`RequestProofs`)

| Theorem | Argument |
|---|---|
| `ReadInvHolds` | `ReadInv`, the inductive invariant of the four below: for each stage, what is read and what is left in `rest` and `todo` make the request that was sent, or its beginning if it was cut |
| `FieldsAsSentHolds` | each turn takes the first pair of what is left and puts it in front of those before it (`InQuery`, `InForm`), so where no value has `&` the list is the sent one backwards and the first pair of a key the last that was sent; a value with `&` is read up to it and what follows makes pairs of its own, which take no other pair away; decoding gives back what escaping made of a value |
| `HeadersAsSentHolds` | the `k` headers read are the first `k` that were sent, their names in lower case and no space before their values (`InHeaders`); a name has one lower case for all its spellings (`HeaderFound`) |
| `RoutedAsSentHolds` | `cookies_parser` is given the value of the first `Cookie` header, which is `sid`, `=` and the session's words (`CookieIs`); the uri is the path that was sent, whose only id stands between its second and its third slash (`IdIs`) |
| `CutNeverInventsHolds` | a text that was cut is a beginning of the one sent, so a key that is followed by `=` was read whole, and its value is a beginning of the sent one (`CutField`): the `&` that ends it may be the one that the parser puts behind the text. Only a text that ends with a line, or within the first, is read on behind its end (`CutAtLineEnd`) |
| `FirstFoundHolds` | each note is the last place of its byte, so a match between two tries would have a byte of the pattern behind its note |
| `ReadsInsideHolds` | the pattern is only tried where it ends within the text |

The first five are for any words, any number of fields and headers of any length,
requests cut anywhere and any text behind the cut. They rest on what is true of requests
that this site's pages make: no separator in a key, and in a value of a field spaces, `=`
and `&`, as a member may type them (`HttpRequestAssumption`); and one cookie, `sid`
(`BrowserAssumption`). What is sent is
put together by a recursive function (`Ends`), of which the proofs use its one step:
the text of the last `k` fields is the first of them and the text of the last `k - 1`
(`EndsAre`). `FirstFoundHolds` says less of texts with bytes of UTF-8, as it must: such a byte may move
the pattern past a match.

**Process and files** (`PartsProofs`)

| Theorem | Argument |
|---|---|
| `DiesOnlyForHolds` | `LifeInv`: `fb` is set when all objects are made (`Published`); a handler that is alone, finds `fb` and has interrupted no call of the allocator has freed exactly what is before the place it is at (`InOrder`) |
| `FilesServedHolds`, `CrashesOnlyForHolds` | `StaticInv`: what the handler and the cache's entry know of a file at each step (`Mapped`) still holds if nobody has written it since; the first NUL of the mapping is then at the file's length (`SentIs`); what is mapped is this request's file, or the entry's and an earlier request put it there (`Meant`) |

**Pages** (`PageProofs`)

| Theorem | Argument |
|---|---|
| `ContextOwnedHolds` | `TemplateInv`: every call on the stack has the handler's map, and the map is there until the handler, whose stack is empty, deletes its template; an included file's template gives the map up before it is deleted |
| `PageInvHolds` | each action keeps `PageInv`, below; each way to cut up what is left of a file at a brace is a lemma about regular files |
| `RenderedAsWrittenHolds` | from `PageInv`, and `Meaning` as the solution of one equation per file (`MeaningExplains`); where no key has two values the last value of a key is the first (`LastIsFirst`, `MeaningsAgree`) |

`RenderedAsWritten` alone says nothing of a page that is under way. `PageInv`, which
TLC checked on the instance of `template` before it was proved, says it
call by call: each running call of `templateRender` stands before a part of its
file, on one or behind one; what `strtok_r` has left is the rest of the file as it is
written; and what the call has put out is, blanks aside, what the parts before mean.
The last call on the stack works, each below it waits for the file that it
includes, which is the file of the call above. So when a call returns, its page is
the meaning of its file, which is what the one below has to add. The invariant needs
`Regular`: the character dropped behind a construct is the second brace of a
key, but what follows an include or a `when` has to be a blank; the character lost to the
terminator is missing in the meaning of a text and is not looked at in a construct. It needs
`Nested` for the meaning: by the files' ranks, following includes one level deeper changes nothing
once all ranks are passed, so that the last of the `Levels` solves the equations. Values may hold
braces, since they are put out and never read again.

**How.** A recursive definition is a recursive function on an interval, unfolded a step at a
time, and what it computes for every input is proved as a set of numbers that is all
of an interval, since a least number outside it does not exist. `LeastNumber` has this
from the well-foundedness of strict inclusion on finite sets. The first row of a
query, the last of a run and the sum of a list are such facts.

**Only model-checked:** what holds under
fairness (`EveryRequestEnds`, `EveryConnectionEnds`, `CallsReturn`), for which
the prover has no rule. Every invariant and every other action property that a passing run
checks is proved. The four runs that end with a violation are about statements
which are false.

## 5. Not modelled, and the plan

Not modelled:

- `rbtree.c` and its header, the tree of NLnet Labs' Unbound, and `map.c`, which wraps
  it: nothing in the program calls either.
- The inside of `list.c` and `basic_string.c`: lists are sequences and strings are
  blocks in the modules that use them. The bounds of `dir[32]` (`server.c:151`) and the
  terminator behind a full receive buffer (`server.c:142`): what they overwrite is up
  to the compiler.
- SHA-256, which is OpenSSL's. The encoder of `helper.c`, which nothing calls.
- The list of several cookies to be sent, which no handler makes.
- `accept` failing for a reason that leaves connections queued (`server.c:198`): the model
  has it (`AcceptMayFail`), but no line of the code promises anything about it, so
  `every_connection` leaves it out and no run refutes it.
- Closing the database: `facebooc_server.c:75` declares `db_close` where it means to call
  it. SQLite's journal covers for it.
- The markup of pages, style sheets, logging, the deployment scripts.

To be modelled next: `EventLoop` and `Facebooc` composed, with the loop's connections
as the tabs' requests; pages of a listing beyond the first.
