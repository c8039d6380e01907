----------------------------- MODULE ToolCalls -----------------------------
(***************************************************************************)
(* The calls of tools that dispatch_tool_calls of src/tool_node.py makes   *)
(* one after the other: the micro-task queue and the file tools of         *)
(* src/tools.py on one file of the workspace, beside the commands and      *)
(* background jobs that write to it.  What the process tools do is in      *)
(* ProcessTools.                                                           *)
(*                                                                         *)
(* A file is a sequence of chunks: lines, where it is read; pieces of      *)
(* text, where it is searched.  Files are opened as text: whatever the     *)
(* line ends on the disk, what a tool reads has one kind only.             *)
(***************************************************************************)
EXTENDS Integers, Sequences, FiniteSets

CONSTANTS
    TaskIds,
    Descriptions,
    NotGiven,     \* an optional argument left out, or an empty string
    Missing,      \* the file does not exist, or is not UTF-8
    Chunks,
    LF,           \* a chunk that ends in \n
    CRLF,         \* the same chunk ending in \r\n, or in \r
    MaxLen,       \* bound on the chunks of a file
    Searches,     \* what search_string may be
    Replacements, \* what replace_string may be
    MAX_FILE_LINES

ASSUME ToolAssumption ==
    /\ NotGiven \notin TaskIds
    /\ NotGiven \notin Descriptions
    /\ NotGiven \notin Int
    /\ LF \in Chunks
    /\ MaxLen \in Nat
    /\ \A text \in Searches \cup Replacements : text \in Seq(Chunks)
    /\ MAX_FILE_LINES \in Nat

VARIABLES
    at,      \* "node", "editing" (between read and write), or "raised"
    tasks,   \* micro_tasks
    file,
    answer   \* the last call of a tool here: its arguments and what it answered

vars == <<at, tasks, file, answer>>

Texts(n) == UNION {[1..k -> Chunks] : k \in 0..n}
Files == Texts(MaxLen) \cup {Missing}

\* TOOL_SCHEMAS
Tools == {"run_bash_with_truncation", "bash_async", "wait_and_tail", "kill_process",
          "read_file", "write_file", "edit_file_chunk", "dynamic_task_manager"}

NoCall == [tool |-> "none"]

Init ==
    /\ at = "node"
    /\ tasks = <<>>
    /\ file \in Files
    /\ answer = NoCall

-----------------------------------------------------------------------------
(* dynamic_task_manager *)

Ids == {tasks[i].task_id : i \in 1..Len(tasks)}

TaskAnswer(ok) ==
    /\ at = "node"
    /\ answer' = [tool |-> "dynamic_task_manager", ok |-> ok]
    /\ UNCHANGED <<at, file>>

\* Mutant: no look at the ids that are there.
PushTwice(id, description) ==
    /\ TaskAnswer(TRUE)
    /\ Len(tasks) < 2 * Cardinality(TaskIds)
    /\ tasks' = Append(tasks, [task_id |-> id, description |-> description,
                               status |-> "pending"])

Push(id, description) ==
    /\ TaskAnswer(TRUE)
    /\ id \notin Ids
    /\ tasks' = Append(tasks, [task_id |-> id, description |-> description,
                               status |-> "pending"])

\* Mutant: tasks.pop() where the code has tasks.pop(0).
PopLast ==
    /\ TaskAnswer(TRUE)
    /\ tasks # <<>>
    /\ tasks' = SubSeq(tasks, 1, Len(tasks) - 1)

Pop ==
    /\ TaskAnswer(TRUE)
    /\ tasks # <<>>
    /\ tasks' = Tail(tasks)

\* Mutant: a status that the queue does not know.
CompleteAsDone(id) ==
    /\ TaskAnswer(TRUE)
    /\ \E i \in 1..Len(tasks) :
          /\ tasks[i].task_id = id
          /\ tasks' = [tasks EXCEPT ![i].status = "done"]

Complete(id) ==
    /\ TaskAnswer(TRUE)
    /\ \E i \in 1..Len(tasks) :
          /\ tasks[i].task_id = id
          /\ \A j \in 1..(i - 1) : tasks[j].task_id # id
          /\ tasks' = [tasks EXCEPT ![i].status = "completed"]

\* The description only, if there is a new one.
Update(id, description) ==
    /\ TaskAnswer(TRUE)
    /\ \E i \in 1..Len(tasks) :
          /\ tasks[i].task_id = id
          /\ \A j \in 1..(i - 1) : tasks[j].task_id # id
          /\ tasks' = IF description = NotGiven THEN tasks
                      ELSE [tasks EXCEPT ![i].description = description]

\* "list", "pop" of nothing, and every refusal: an unknown action, an argument
\* that the action needs, an id that is there already or is not there.
TasksUntouched ==
    /\ \E ok \in BOOLEAN : TaskAnswer(ok)
    /\ UNCHANGED tasks

TaskCall ==
    \/ \E id \in TaskIds :
          \/ \E description \in Descriptions : Push(id, description)
          \/ \E description \in Descriptions \cup {NotGiven} : Update(id, description)
          \/ Complete(id)
    \/ Pop
    \/ TasksUntouched

-----------------------------------------------------------------------------
(* File tools *)

\* What a tool reads of the file: Python translates every line end to \n.
Content ==
    IF file = Missing THEN Missing
    ELSE [i \in 1..Len(file) |-> IF file[i] = CRLF THEN LF ELSE file[i]]

\* lines[i:j] of Python, indices from 0, negative ones from the end.
Slice(lines, i, j) ==
    LET index(k) == IF k >= 0 THEN (IF k > Len(lines) THEN Len(lines) ELSE k)
                    ELSE IF Len(lines) + k < 0 THEN 0 ELSE Len(lines) + k
    IN  SubSeq(lines, index(i) + 1, index(j))

\* Not given, or 0.
Falsy(n) == n \in {NotGiven, 0}

\* Mutant: lines[start_line:end_line].
RangeFromZero(lines, start_line, end_line) ==
    Slice(lines, IF Falsy(start_line) THEN 0 ELSE start_line,
                 IF Falsy(end_line) THEN Len(lines) ELSE end_line)

\* The lines that read_file returns.
LineRange(lines, start_line, end_line) ==
    Slice(lines, IF Falsy(start_line) THEN 0 ELSE start_line - 1,
                 IF Falsy(end_line) THEN Len(lines) ELSE end_line)

ReadAnswer(start_line, end_line, ok, text) ==
    /\ at = "node"
    /\ answer' = [tool |-> "read_file", start_line |-> start_line, end_line |-> end_line,
                  content |-> Content, ok |-> ok, text |-> text]
    /\ UNCHANGED <<at, tasks, file>>

TooLong(lines, start_line) == Len(lines) > MAX_FILE_LINES /\ start_line = NotGiven

ReadFile(start_line, end_line) ==
    \/ /\ file = Missing
       /\ ReadAnswer(start_line, end_line, FALSE, <<>>)
    \/ /\ file # Missing
       /\ TooLong(Content, start_line)
       /\ ReadAnswer(start_line, end_line, FALSE, <<>>)
    \/ /\ file # Missing
       /\ ~TooLong(Content, start_line)
       /\ ReadAnswer(start_line, end_line, TRUE, LineRange(Content, start_line, end_line))

\* What open(..., "w") and write leave of a text: all of it, its line ends as they
\* are; or, with an error, the old file if it cannot be opened, else what was
\* written until the error (nothing, if the text cannot be encoded).
Written(text, ok) ==
    IF ok THEN {text} ELSE {file} \cup {SubSeq(text, 1, n) : n \in 0..Len(text)}

WriteFile(text) ==
    /\ at = "node"
    /\ \E ok \in BOOLEAN :
          /\ file' \in Written(text, ok)
          /\ answer' = [tool |-> "write_file", ok |-> ok]
    /\ UNCHANGED <<at, tasks>>

\* Where search_string is found in content.
Places(content, piece) ==
    {i \in 1..(Len(content) - Len(piece) + 1) :
        SubSeq(content, i, i + Len(piece) - 1) = piece}

\* Mutant: whether it is found.
CountAny(content, piece) == IF Places(content, piece) = {} THEN 0 ELSE 1

\* str.count: from the left, going on behind each occurrence found.
Count(content, piece) ==
    LET from[i \in 1..(Len(content) + 2)] ==
            IF i > Len(content) - Len(piece) + 1 THEN 0
            ELSE IF i \notin Places(content, piece) THEN from[i + 1]
            ELSE 1 + from[i + (IF piece = <<>> THEN 1 ELSE Len(piece))]
    IN  from[1]

\* str.replace(search_string, replace_string, 1).
Replaced(content, piece, by) ==
    LET i == CHOOSE i \in Places(content, piece) :
                \A j \in Places(content, piece) : i <= j
    IN  SubSeq(content, 1, i - 1) \o by \o SubSeq(content, i + Len(piece), Len(content))

\* The part of edit_file_chunk up to its second open: a refusal, or the text to
\* be written.
EditRead(piece, by) ==
    /\ at = "node"
    /\ LET call(result, text) ==
               [tool |-> "edit_file_chunk", search_string |-> piece, replace_string |-> by,
                old |-> file, content |-> Content, result |-> result, text |-> text]
       IN  IF file # Missing /\ Count(Content, piece) = 1
             THEN /\ Len(Replaced(Content, piece, by)) <= MaxLen
                  /\ answer' = call("pending", Replaced(Content, piece, by))
                  /\ at' = "editing"
             ELSE /\ answer' = call("refused", <<>>)
                  /\ UNCHANGED at
    /\ UNCHANGED <<tasks, file>>

EditWrite ==
    /\ at = "editing"
    /\ at' = "node"
    /\ \E ok \in BOOLEAN :
          /\ file' \in Written(answer.text, ok)
          /\ answer' = [answer EXCEPT !.result = IF ok THEN "applied" ELSE "failed"]
    /\ UNCHANGED tasks

\* A command of run_bash, or a job of bash_async at any time, writes the file.
CommandWrites(content) ==
    /\ at \in {"node", "editing"}
    /\ file' = content
    /\ answer' = IF at = "node" THEN NoCall ELSE answer
    /\ UNCHANGED <<at, tasks>>

FileCall ==
    \/ \E start_line, end_line \in (-1)..(MaxLen + 1) \cup {NotGiven} :
          ReadFile(start_line, end_line)
    \/ \E text \in Texts(MaxLen) : WriteFile(text)
    \/ \E piece \in Searches, by \in Replacements : EditRead(piece, by)
    \/ EditWrite

-----------------------------------------------------------------------------
\* _dispatch raises, and with it the visit and the graph run.  Every tool may: an
\* argument that _dispatch subscripts is not given, or is of another type than its
\* schema says.  The process tools may on any arguments: a pid beyond the integers
\* of the system, SIGKILL where it is not permitted, a log file that a job removes.
DispatchRaises(tool) ==
    /\ at = "node"
    /\ at' = "raised"
    /\ answer' = [tool |-> tool]
    /\ UNCHANGED <<tasks, file>>

Raised == at = "raised" /\ UNCHANGED vars

Next ==
    \/ TaskCall
    \/ FileCall
    \/ \E content \in Files : CommandWrites(content)
    \/ \E tool \in Tools : DispatchRaises(tool)
    \/ Raised

Spec == Init /\ [][Next]_vars

-----------------------------------------------------------------------------
(* Properties *)

Statuses == {"pending", "completed"}
Tasks == [task_id : TaskIds, description : Descriptions, status : Statuses]

TypeOK ==
    /\ at \in {"node", "editing", "raised"}
    /\ tasks \in Seq(Tasks)
    /\ file \in Files
    /\ answer.tool \in Tools \cup {"none"}
    /\ at = "editing" => answer.tool = "edit_file_chunk"

\* After any sequence of calls, a task is named by its id: complete and update
\* find the one that was pushed.
TaskIdsUnique ==
    \A i, j \in 1..Len(tasks) : tasks[i].task_id = tasks[j].task_id => i = j

\* Over all calls the queue is an agenda: in order, without loss, and no call
\* but pop takes a task or reopens one that is completed.
Agenda == INSTANCE TaskAgenda WITH
    known <- Ids,
    done <- {tasks[i].task_id : i \in {k \in 1..Len(tasks) : tasks[k].status = "completed"}},
    before <- {<<tasks[pair[1]].task_id, tasks[pair[2]].task_id>> :
                  pair \in {p \in (1..Len(tasks)) \X (1..Len(tasks)) : p[1] < p[2]}}

ImplementsAgenda == Agenda!AgendaSpec

\* An edit is applied only where no second occurrence stands beside the one that
\* is replaced, and refused only if there is none or a choice; occurrences that
\* overlap count as one.  The file that it leaves is the one that it found, that
\* occurrence replaced; around it nothing changes but line ends, which become \n.
EditIsSurgical ==
    answer.tool = "edit_file_chunk" /\ at # "raised" /\ answer.content # Missing =>
        LET places == Places(answer.content, answer.search_string)
            beside == \E i, j \in places : i < j /\ i + Len(answer.search_string) <= j
            kept == Len(answer.content) - Len(answer.search_string)
            by == answer.replace_string
            alike(new, old) == new = old \/ (new = LF /\ old = CRLF)
        IN  IF answer.result = "refused"
              THEN places = {} \/ beside
              ELSE /\ ~beside
                   /\ answer.result = "applied" => file = answer.text
                   /\ \E i \in places :
                         /\ Len(answer.text) = kept + Len(by)
                         /\ \A k \in 1..(i - 1) : alike(answer.text[k], answer.old[k])
                         /\ \A k \in 1..Len(by) : answer.text[i + k - 1] = by[k]
                         /\ \A k \in i..kept :
                               alike(answer.text[k + Len(by)],
                                     answer.old[k + Len(answer.search_string)])

\* For line numbers from 1, whatever the length of the file, read_file answers
\* the lines from start_line to end_line as read, both included; only a file above
\* the limit read without start_line is refused.
ReadIsRange ==
    answer.tool = "read_file" /\ at # "raised" /\ answer.content # Missing =>
        LET legal(n) == n = NotGiven \/ n >= 1
            first == IF answer.start_line = NotGiven THEN 1 ELSE answer.start_line
            asked == {k \in 1..Len(answer.content) :
                         /\ first <= k
                         /\ answer.end_line = NotGiven \/ k <= answer.end_line}
        IN  legal(answer.start_line) /\ legal(answer.end_line) =>
            IF answer.ok
              THEN /\ Len(answer.text) = Cardinality(asked)
                   /\ \A k \in asked : answer.text[k - first + 1] = answer.content[k]
              ELSE Len(answer.content) > MAX_FILE_LINES /\ answer.start_line = NotGiven

-----------------------------------------------------------------------------
(* What the repository says of the program, and the code does not do *)

\* specs/spec_tool.md:48: edit_file_chunk is there "to prevent the agent from
\* accidentally wiping out unedited code blocks": whether an edit is applied or
\* fails, the file is the edited one or the one it was.
EditWipesNothing ==
    [][at = "editing" /\ at' = "node" => file' \in {file, answer.text}]_vars

=============================================================================
