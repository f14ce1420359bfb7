---------------------------- MODULE MarkovStream ----------------------------
(***************************************************************************)
(* One page being streamed to a client: the MarkovStream of                *)
(* crates/nailgen/src/lib.rs, a state machine that hyper polls for the     *)
(* next buffer of the body, with the generators of html_gen.rs and the     *)
(* delays of delay.rs it calls.                                            *)
(*                                                                         *)
(* What is written is a sequence of marks: which part of the template it   *)
(* comes from, and how many bytes it has.  Bytes and ticks are small       *)
(* units; elapsed time stops mattering at MaxTime, so `now` stays there.   *)
(***************************************************************************)
EXTENDS PageTemplate, Functions

CONSTANTS
  Kinds,          \* the pages served: "warning" and "generated"
  Templates,      \* the template files an operator may have put in place
  PayloadSize,    \* generator.payload_size, in bytes
  Timeouts,       \* what generator.timeout may be, 0 to have none
  ChunkSize,      \* generator.chunk_size
  MinDelay, MaxDelay,          \* generator.min_delay and max_delay
  MinParagraph, MaxParagraph,  \* generator.min_ and max_paragraph_size
  MaxPitLinks,    \* generator.max_pit_links
  PromptSizes,    \* the sizes of generator.prompts
  Titles,         \* the titles a chain may generate
  MessageTitle,   \* the first line of the warning message
  ContentSize,    \* the size of the warning message
  InitialParagraphs,  \* 3 in the code: the most paragraphs of INITIAL
  SectionParagraphs,  \* 4 in the code: the most paragraphs of a section
  MaxTime,        \* where the model clock saturates
  NotSet, NoJob, NoTitle

ASSUME SizesAreNaturals ==
  /\ {PayloadSize, ChunkSize, MinDelay, MinParagraph, ContentSize,
      MaxPitLinks, InitialParagraphs, SectionParagraphs, MaxTime} \subseteq Nat
  /\ PromptSizes \subseteq Nat /\ Timeouts \subseteq Nat
  /\ {MaxDelay, MaxParagraph} \subseteq Nat \cup {NotSet}
ASSUME ClockOutlivesDelays == MinDelay <= MaxTime /\ \A t \in Timeouts : t < MaxTime
ASSUME KindsAreKnown == Kinds \subseteq {"warning", "generated"}
ASSUME TemplatesAreTexts == Templates \subseteq Seq(STRING)
ASSUME TitlesAreNumbered ==
  Titles \cup {MessageTitle} \subseteq Nat /\ NoTitle \notin Titles \cup {MessageTitle}

VARIABLES
  kind,      \* whether the Template is a WarningTemplate or a GeneratedTemplate
  template,  \* its tokens
  timeout,   \* generator.timeout
  cursor,    \* TemplateCursor.cursor
  buffer,    \* the marks in the BytesMut of the Template state
  title,     \* page_title
  total,     \* total_bytes
  state,     \* GeneratorState
  job,       \* the future of GeneratingContent: what it writes, and its buffer
  left,      \* ticks until the Sleep of Delay elapses
  now,       \* ticks since start_time
  output,    \* the marks handed to hyper, in order
  ended,     \* whether hyper has seen the end of the stream
  gap        \* history: ticks since a main chunk was handed over

page == <<kind, template, timeout>>
vars == <<page, cursor, buffer, title, total, state, job, left, now,
          output, ended, gap>>

States == {"Template", "Content", "GeneratingContent", "Delay", "Finished", "Panicked"}

\* A tag tells two titles, or the delivery times of two chunks, apart.
Mark(what, at, size, tag) == [what |-> what, at |-> at, size |-> size, tag |-> tag]
Parts == Placeholders \cup {"text"}
Marks == [what : Parts, at : Nat, size : Nat, tag : Nat]

\* The bytes of the marks that come from one of these parts, and of all.
BytesOf(parts, marks) ==
  LET sum[n \in 0 .. Len(marks)] ==
        IF n = 0 THEN 0
        ELSE sum[n - 1] + (IF marks[n].what \in parts THEN marks[n].size ELSE 0)
  IN  sum[Len(marks)]

Bytes(marks) == BytesOf(Parts, marks)

\* A future that appends `what` to buf; keep is its keep_generating.
Jobs == [what : {"initial", "main", "footer"}, at : Nat, buf : Seq(Marks), keep : BOOLEAN]
ASSUME NoJobIsNone == NoJob \notin Jobs

TypeOK ==
  /\ kind \in Kinds
  /\ template \in Templates /\ timeout \in Timeouts
  /\ cursor \in 1 .. Len(template) + 1
  /\ buffer \in Seq(Marks)
  /\ title \in Titles \cup {MessageTitle, NoTitle}
  /\ total \in Nat
  /\ state \in States
  /\ job \in Jobs \cup {NoJob}
  /\ state = "GeneratingContent" <=> job # NoJob
  /\ left \in Nat
  /\ now \in 0 .. MaxTime
  /\ output \in Seq(Marks)
  /\ ended \in BOOLEAN
  /\ gap \in 0 .. MaxTime

\* random_range of min to max, or min when no max is configured.  An empty
\* range panics.
Span(min, max) == IF max = NotSet THEN {min} ELSE min .. max

\* The bytes of up to n paragraphs: tags, and words until the chain stops.
Paragraphs(n) ==
  LET words == Span(MinParagraph, MaxParagraph)
  IN  IF words = {} THEN {} ELSE UNION {k .. k * (1 + Max(words)) : k \in 1 .. n}

-----------------------------------------------------------------------------
\* MarkovStream::new.
Init ==
  /\ kind \in Kinds
  /\ template \in {t \in Templates : Validate(t, Allowed(kind))}
  /\ timeout \in Timeouts
  /\ cursor = 1
  /\ buffer = <<>>
  /\ title = NoTitle
  /\ total = 0
  /\ state = "Template"
  /\ job = NoJob
  /\ left = 0
  /\ now = 0
  /\ output = <<>>
  /\ ended = FALSE
  /\ gap = MaxTime

Static == kind = "warning"

(***************************************************************************)
(* The Template state.  Reach(p) is cursor.write_template returning p; the *)
(* text it writes joins the buffer as Written.                             *)
(***************************************************************************)
Here == WriteTemplate(template, cursor)

Written ==
  buffer \o [k \in 1 .. Here.at - cursor |-> Mark("text", cursor + k - 1, 1, 0)]

\* A slot of the template goes by the position of its closing token.
Slot == Here.next - 1

Reach(p) ==
  /\ state = "Template"
  /\ Here.state = p
  /\ cursor' = Here.next
  /\ UNCHANGED <<page, left, now, ended>>

\* Slip: the buffer is copied into the future and stays.
StartJobKeepsBuffer(what, at, buf, keep) ==
  /\ state' = "GeneratingContent"
  /\ job' = [what |-> what, at |-> at, buf |-> buf, keep |-> keep]
  /\ buffer' = buf
  /\ UNCHANGED <<title, total, output, gap>>

\* The buffer moves into a future, which the next poll of this loop starts.
StartJob(what, at, buf, keep) ==
  /\ state' = "GeneratingContent"
  /\ job' = [what |-> what, at |-> at, buf |-> buf, keep |-> keep]
  /\ buffer' = <<>>
  /\ UNCHANGED <<title, total, output, gap>>

\* static_title, or a few words of the chain.
TitleTexts == IF Static THEN {MessageTitle} ELSE Titles

\* Slip: every TITLE is generated anew.
WriteTitleAnew ==
  /\ Reach("title")
  /\ \E text \in Titles :
       /\ title' = text
       /\ buffer' = Append(Written, Mark("title", Slot, 1, text))
  /\ total' = total + 1
  /\ UNCHANGED <<state, job, output, gap>>

\* TITLE: the first one decides the title of the page.
WriteTitle ==
  /\ Reach("title")
  /\ \E text \in TitleTexts :
       LET mine == IF title = NoTitle THEN text ELSE title
       IN  /\ title' = mine
           /\ buffer' = Append(Written, Mark("title", Slot, 1, mine))
  /\ total' = total + 1
  /\ UNCHANGED <<state, job, output, gap>>

\* Slip: INITIAL starts from an empty buffer, as MAIN does.
WriteInitialAfresh == Reach("initial") /\ StartJob("initial", Slot, <<>>, FALSE)

\* INITIAL.
WriteInitial == Reach("initial") /\ StartJob("initial", Slot, Written, FALSE)

\* Slip: the message replaces the buffer.
WriteMessageAfresh ==
  /\ Reach("main") /\ Static
  /\ buffer' = <<Mark("main", Slot, ContentSize, 0)>>
  /\ total' = total + ContentSize
  /\ UNCHANGED <<title, state, job, output, gap>>

\* MAIN of a warning page: the message, and on with the template.
WriteMessage ==
  /\ Reach("main") /\ Static
  /\ buffer' = Append(Written, Mark("main", Slot, ContentSize, 0))
  /\ total' = total + ContentSize
  /\ UNCHANGED <<title, state, job, output, gap>>

\* MAIN of a generated page: the loop starts over with an empty buffer.
EnterContent ==
  /\ Reach("main") /\ ~Static
  /\ state' = "Content"
  /\ buffer' = <<>>
  /\ UNCHANGED <<title, total, job, output, gap>>

\* EXTRA: one of the prompts, if there are any.
WriteExtra ==
  /\ Reach("extra")
  /\ \/ PromptSizes = {} /\ buffer' = Written /\ UNCHANGED total
     \/ \E size \in PromptSizes :
          /\ buffer' = Append(Written, Mark("extra", Slot, size, 0))
          /\ total' = total + size
  /\ UNCHANGED <<title, state, job, output, gap>>

\* FOOTER.
WriteFooter == Reach("footer") /\ StartJob("footer", Slot, Written, FALSE)

\* The end of the template: what is left goes out.
FinishPage ==
  /\ Reach("finished")
  /\ state' = "Finished"
  /\ output' = output \o Written
  /\ buffer' = <<>>
  /\ UNCHANGED <<title, total, job, gap>>

-----------------------------------------------------------------------------
TimedOut == timeout > 0 /\ now >= timeout

\* Slip: only the timeout ends MAIN.
LeaveContentOnTimeout ==
  /\ state = "Content"
  /\ TimedOut
  /\ state' = "Template"
  /\ UNCHANGED <<page, cursor, buffer, title, total, job, left, now,
                 output, ended, gap>>

\* Content, when the page is done with MAIN: back to the template.
LeaveContent ==
  /\ state = "Content"
  /\ TimedOut \/ total >= PayloadSize
  /\ state' = "Template"
  /\ UNCHANGED <<page, cursor, buffer, title, total, job, left, now,
                 output, ended, gap>>

\* Slips: another chunk whatever was sent, and however late it is.
StartChunkUnmeasured ==
  /\ state = "Content"
  /\ ~TimedOut
  /\ StartJob("main", cursor - 1, <<>>, TRUE)
  /\ UNCHANGED <<page, cursor, left, now, ended>>

StartChunkUntimed ==
  /\ state = "Content"
  /\ total < PayloadSize
  /\ StartJob("main", cursor - 1, <<>>, TRUE)
  /\ UNCHANGED <<page, cursor, left, now, ended>>

\* Content, when another chunk is due; the cursor stands behind MAIN.
StartChunk ==
  /\ state = "Content"
  /\ ~TimedOut /\ total < PayloadSize
  /\ StartJob("main", cursor - 1, <<>>, TRUE)
  /\ UNCHANGED <<page, cursor, left, now, ended>>

\* Slip: a finished future is kept.
HandOverKeepsJob(buf) ==
  /\ total' = total + Bytes(buf)
  /\ output' = output \o buf
  /\ UNCHANGED <<page, cursor, buffer, title, job, now, ended>>

\* The buffer of a future is handed to hyper.
HandOver(buf) ==
  /\ total' = total + Bytes(buf)
  /\ output' = output \o buf
  /\ job' = NoJob
  /\ UNCHANGED <<page, cursor, buffer, title, now, ended>>

Panic ==
  /\ state' = "Panicked"
  /\ job' = NoJob
  /\ UNCHANGED <<page, cursor, buffer, title, total, left, now,
                 output, ended, gap>>

\* initial_content: a few paragraphs.
InitialSizes == Paragraphs(InitialParagraphs)

\* footer: a nav with up to max_pit_links links, and at least one.
FooterSizes == {1 + links : links \in 1 .. MaxPitLinks}

\* initial_content and footer are done with their first poll.
FinishJob ==
  /\ state = "GeneratingContent" /\ ~job.keep
  /\ LET sizes == IF job.what = "initial" THEN InitialSizes ELSE FooterSizes
     IN  IF sizes = {} THEN Panic
         ELSE /\ \E size \in sizes :
                   HandOver(Append(job.buf, Mark(job.what, job.at, size, 0)))
              /\ state' = "Template"
              /\ UNCHANGED <<left, gap>>

\* A header and its paragraphs.
Sections == {1 + size : size \in Paragraphs(SectionParagraphs)}

\* main_content: a section that leaves the chunk short, and a yield_now.
GrowChunk ==
  /\ state = "GeneratingContent" /\ job.keep
  /\ \E size \in Sections :
       LET made == Bytes(job.buf) + size
       IN  /\ made < ChunkSize
           /\ job' = [job EXCEPT !.buf = <<Mark("main", job.at, made, 0)>>]
  /\ UNCHANGED <<page, cursor, buffer, title, total, state, left, now,
                 output, ended, gap>>

\* delay_output.
Delays == Span(MinDelay, MaxDelay)

\* main_content: the section that fills the chunk.  The delay is drawn
\* before the chunk is returned.
FinishChunk ==
  /\ state = "GeneratingContent" /\ job.keep
  /\ IF Sections = {} \/ Delays = {} THEN Panic
     ELSE \E size \in Sections, delay \in Delays :
            LET made == Bytes(job.buf) + size
            IN  /\ made >= ChunkSize
                /\ HandOver(<<Mark("main", job.at, made, now)>>)
                /\ left' = delay
                /\ state' = IF delay > 0 THEN "Delay" ELSE "Content"
                /\ gap' = 0

\* Slip: the stream goes on a tick before its Sleep elapses.
DelayOverEarly ==
  /\ state = "Delay" /\ left <= 1
  /\ state' = "Content"
  /\ UNCHANGED <<page, cursor, buffer, title, total, job, left, now,
                 output, ended, gap>>

\* The Sleep of Delay has elapsed.
DelayOver ==
  /\ state = "Delay" /\ left = 0
  /\ state' = "Content"
  /\ UNCHANGED <<page, cursor, buffer, title, total, job, left, now,
                 output, ended, gap>>

\* A poll of a Finished stream: None.
EndOfBody ==
  /\ state = "Finished" /\ ~ended
  /\ ended' = TRUE
  /\ UNCHANGED <<page, cursor, buffer, title, total, state, job, left,
                 now, output, gap>>

\* Time passes in a poll and between polls, for as long as the client likes.
Tick ==
  /\ ~ended /\ state # "Panicked"
  /\ now' = Min({now + 1, MaxTime})
  /\ gap' = Min({gap + 1, MaxTime})
  /\ left' = IF left > 0 THEN left - 1 ELSE 0
  /\ UNCHANGED <<page, cursor, buffer, title, total, state, job,
                 output, ended>>

Poll ==
  \/ WriteTitle
  \/ WriteInitial
  \/ WriteMessage
  \/ EnterContent
  \/ WriteExtra
  \/ WriteFooter
  \/ FinishPage
  \/ LeaveContent
  \/ StartChunk
  \/ FinishJob
  \/ GrowChunk
  \/ FinishChunk
  \/ DelayOver
  \/ EndOfBody

Next == Poll \/ Tick

Spec == Init /\ [][Next]_vars

\* hyper polls the body while the client reads it; a section either fills
\* the chunk or brings it closer to full, so GrowChunk cannot go on.
FairSpec == Spec /\ WF_vars(Poll) /\ WF_vars(Tick)

-----------------------------------------------------------------------------
Finished == state = "Finished"

Present(what) == {m.at : m \in {x \in Range(output) : x.what = what}}

\* Slots of the template whose placeholder must leave a mark on the page: a
\* prompt may be left unset, and a page may have met its size before MAIN.
MustFill ==
  {k \in Slots(template) :
     /\ SlotWord(template, k) = "extra" => PromptSizes # {}
     /\ SlotWord(template, k) = "main" => Static}

\* Where the template says something that the page does not have.
Missing ==
  (TextOf(template) \ Present("text"))
    \cup {k \in MustFill : SlotEnd(template, k) \notin Present(SlotWord(template, k))}

(***************************************************************************)
(* A warning page is complete when it ends: all the template's text, and   *)
(* something for each of its placeholders.  (poll_next, warning arm)       *)
(***************************************************************************)
WarningPageComplete == Finished /\ Static => Missing = {}

(***************************************************************************)
(* What a generated page loses, it loses to a MAIN: behind every text or   *)
(* placeholder that is missing comes a MAIN, with no INITIAL or FOOTER in  *)
(* between to carry the buffer out first.  (lib.rs, the Main arm)          *)
(***************************************************************************)
OnlyMainDiscards ==
  Finished =>
    \A x \in Missing : \E m \in Slots(template) :
      /\ m > x /\ SlotWord(template, m) = "main"
      /\ \A k \in Slots(template) :
           x <= k /\ k < m => SlotWord(template, k) \notin {"initial", "footer"}

(***************************************************************************)
(* Nothing is sent twice or out of the template's order, whatever buffers  *)
(* and futures it passed through; only chunks of MAIN repeat their place.  *)
(***************************************************************************)
OutputInOrder ==
  \A i, j \in 1 .. Len(output) :
    i < j => \/ output[i].at < output[j].at
             \/ output[i].at = output[j].at /\ output[j].what = "main" /\ ~Static

(***************************************************************************)
(* The cursor's walk at start-up accepts the well-formed templates and no  *)
(* others.  (TemplateCursor::validate; said once, of the empty page, since *)
(* it is about all templates)                                              *)
(***************************************************************************)
AcceptsWellFormed ==
  template = <<>> =>
    \A t \in Templates : Validate(t, Allowed(kind)) <=> WellFormed(t, Allowed(kind))

\* All TITLEs of a page agree.  (page_title, computed once)
OneTitle ==
  \A x, y \in Range(output) : x.what = "title" /\ y.what = "title" => x.tag = y.tag

(***************************************************************************)
(* MAIN overshoots payload_size by less than one chunk, and a chunk        *)
(* overshoots chunk_size by less than a section.                           *)
(***************************************************************************)
MainBytes == BytesOf({"main"}, output)

MainWithinPayload ==
  ~Static /\ MainBytes > 0 =>
    MainBytes < PayloadSize + ChunkSize + Max(Sections \cup {0})

\* At most the chunk that was being made at the timeout is sent after it.
OneLateChunk ==
  timeout > 0 =>
    Cardinality({i \in 1 .. Len(output) :
                   output[i].what = "main" /\ ~Static /\ output[i].tag > timeout}) <= 1

\* Two chunks of MAIN are at least min_delay apart.  (delay_output)
ChunksSpaced ==
  [][MainBytes' > MainBytes => Static \/ gap >= MinDelay]_vars

\* A page that is read to its end has one.  (poll_next as a whole)
PageCompletes == <>ended

-----------------------------------------------------------------------------
(***************************************************************************)
(* Refuted.  template.rs:157-161 says of the cursor that it writes the     *)
(* static template's text to the buffer up to each placeholder, and its    *)
(* test writes_template_to_buffer that a TITLE and MAIN template comes out *)
(* whole.                                                                  *)
(***************************************************************************)
PageComplete == Finished => Missing = {}

(***************************************************************************)
(* Refuted.  delay.rs:12-15 says a delay is "a set minimum delay, or a     *)
(* randomised value", and README.md:58 that a pit.toml needs only the      *)
(* options it overrides; min_delay overridden alone panics.                *)
(***************************************************************************)
NeverPanics == state # "Panicked"
=============================================================================
