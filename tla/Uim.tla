-------------------------------- MODULE Uim --------------------------------
(***************************************************************************)
(* src/wpan/uim/uim.c: the process that waits for the driver of the TI     *)
(* combo chip to ask, in the attribute `install` of sysfs, for its line    *)
(* discipline on the UART, and configures the UART and the chip for it.    *)
(*                                                                         *)
(* The driver (kim), sysfs, the tty and the chip are external.  The driver *)
(* stores a value and then notifies, which are two steps; a reader that is *)
(* slow finds only the value stored last.  Descriptors 1 and 2, which stay *)
(* open, are left out of the numbers; 0 is the standard input.             *)
(***************************************************************************)
EXTENDS Integers, Sequences, FiniteSets

CONSTANTS MaxFd,        \* the limit on descriptors
          CustomBaud,   \* baud_rate asks for something else than 115200
          HasAddress,   \* a BD address was given
          MaxChanges    \* bounds the changes of install

ASSUME MaxFdAssumption == MaxFd \in Nat /\ MaxFd >= 2
ASSUME OptionsAssumption == CustomBaud \in BOOLEAN /\ HasAddress \in BOOLEAN

VARIABLES
    entry,          \* external: the names under which sysfs has the attributes
    install,        \* external: the value of the attribute
    changes,        \* external: how often it has changed
    notify,         \* external: a change that the driver has not announced yet
    event,          \* external: announced since the first read from st_fd
    unread,         \* external: nothing was read from st_fd so far
    ldisc,          \* external: N_TI_WL is the line discipline of the UART
    host, chip,     \* external: the speeds of the UART and of the chip
    answer,         \* external: the command of the chip, and how much of its event is sent
    tty,            \* external: the input queue of the UART
    fds,            \* the descriptors of the process
    st_fd, dev_fd,
    pc, trials, names, opcode, retries, back,
    opened, failed, \* history: dev_fd was ever set; the last install failed
    held,           \* history: open descriptors through which the discipline was set
    reset           \* history: the chip was reset since the UART was set to 115200

driver == <<entry, install, changes, notify>>
file == <<event, unread, st_fd>>
uart == <<ldisc, host, chip, answer, tty>>
history == <<opened, failed, held, reset>>
main == <<trials, names>>
hci == <<opcode, retries>>
vars == <<driver, file, uart, fds, dev_fd, pc, main, hci, back, history>>

EventParts == <<"prefix", "header", "params">>
Silent == [opcode |-> "none", sent |-> 0]

Init ==
    /\ entry \in {"none", "new", "old"} /\ install = "0" /\ changes = 0 /\ notify = FALSE
    /\ event = FALSE /\ unread = TRUE /\ st_fd = -1
    /\ ldisc = FALSE /\ host = "115200" /\ chip = "115200" /\ answer = Silent /\ tty = <<>>
    /\ fds = [d \in 0..MaxFd |-> IF d = 0 THEN "stdin" ELSE "free"]
    /\ dev_fd = 0
    /\ pc = "open" /\ trials = 5 /\ names = "new"
    /\ opcode = "none" /\ retries = 0 /\ back = "repoll"
    /\ opened = FALSE /\ failed = FALSE /\ held = {} /\ reset = FALSE
-----------------------------------------------------------------------------
(* What is not in this file. *)

Populate ==
    /\ entry = "none" /\ entry' \in {"new", "old"}
    /\ UNCHANGED <<install, changes, notify, file, uart, fds, dev_fd, pc, main, hci, back,
                   history>>

\* Before the driver asks for the discipline it turns the chip off and on.
Ask ==
    /\ entry # "none" /\ ~notify /\ changes < MaxChanges
    /\ changes' = changes + 1
    /\ notify' = TRUE
    /\ \/ /\ install = "0" /\ install' = "1"
          /\ chip' = "115200" /\ answer' = Silent /\ reset' = TRUE
       \/ /\ install = "1" /\ install' = "0"
          /\ UNCHANGED <<chip, answer, reset>>
    /\ UNCHANGED <<entry, file, ldisc, host, tty, fds, dev_fd, pc, main, hci, back,
                   opened, failed, held>>

Notify ==
    /\ notify
    /\ notify' = FALSE
    /\ event' = TRUE
    /\ UNCHANGED <<entry, install, changes, unread, st_fd, uart, fds, dev_fd, pc, main, hci,
                   back, history>>

\* The chip sends its event piece by piece, and changes its speed, or refuses to, at the end.
ChipAnswers ==
    /\ answer.opcode # "none" /\ answer.sent < 3
    /\ \E part \in IF answer.sent = 2 THEN {answer.opcode, "refused"}
                   ELSE {EventParts[answer.sent + 1]} :
          /\ tty' = IF \E d \in DOMAIN fds : fds[d] = "uart" THEN Append(tty, part) ELSE tty
          /\ chip' = IF part = "speed" THEN "custom" ELSE chip
    /\ answer' = IF answer.sent = 2 THEN Silent ELSE [answer EXCEPT !.sent = @ + 1]
    /\ UNCHANGED <<driver, file, ldisc, host, fds, dev_fd, pc, main, hci, back, history>>

FreeFds == {d \in DOMAIN fds : fds[d] = "free"}
Lowest(S) == CHOOSE d \in S : \A e \in S : d <= e

\* close(d), an error when d is not open.  The last close of a tty drops the discipline.
Close(d) ==
    /\ fds' = [e \in DOMAIN fds |-> IF e = d THEN "free" ELSE fds[e]]
    /\ IF \E e \in DOMAIN fds : fds'[e] = "uart" THEN UNCHANGED <<ldisc, tty>>
       ELSE ldisc' = FALSE /\ tty' = <<>>
    /\ held' = held \ {d}

\* open(sysfs_install_entry) and where it leaves the process.
OpenInstall(table, found, notFound) ==
    LET free == {d \in DOMAIN table : table[d] = "free"} IN
    IF entry = names /\ free # {}
    THEN /\ st_fd' = Lowest(free)
         /\ fds' = [table EXCEPT ![Lowest(free)] = "install"]
         /\ event' = FALSE /\ unread' = TRUE
         /\ pc' = found
    ELSE /\ st_fd' = -1
         /\ fds' = table
         /\ UNCHANGED <<event, unread>>
         /\ pc' = notFound
-----------------------------------------------------------------------------
(* main *)

\* The third attempt that fails is the last one under the new names.
OpenEntry ==
    /\ pc = "open"
    /\ OpenInstall(fds, "repoll", IF trials = 1 THEN "exited" ELSE "open")
    /\ trials' = trials - 1
    /\ names' = IF trials = 3 /\ entry # names THEN "old" ELSE names
    /\ UNCHANGED <<driver, uart, dev_fd, hci, back, history>>

\* What read(st_fd, &install, 1) returns: the value, then its newline and the end.
ReadsInstall == IF st_fd \in DOMAIN fds /\ fds[st_fd] = "install" /\ unread THEN install ELSE "none"

ReadFile ==
    IF st_fd \in DOMAIN fds /\ fds[st_fd] = "install" /\ unread
    THEN unread' = FALSE /\ event' = FALSE
    ELSE UNCHANGED <<unread, event>>

\* RE_POLL.  A value that was handled below is not read a second time.
RePoll ==
    /\ pc = "repoll"
    /\ ReadFile
    /\ pc' = IF ReadsInstall = "1" THEN "names" ELSE "poll"
    /\ back' = "poll"
    /\ UNCHANGED <<driver, st_fd, uart, fds, dev_fd, main, hci, history>>

\* Mutant of Poll: the attribute is read again through the descriptor that is open.
PollOn ==
    /\ pc = "poll"
    /\ event \/ fds[st_fd] = "free"
    /\ pc' = "read"
    /\ UNCHANGED <<driver, file, uart, fds, dev_fd, main, hci, back, history>>

\* poll returns on an event, and at once for a number that is not open.
Poll ==
    /\ pc = "poll"
    /\ event \/ fds[st_fd] = "free"
    /\ OpenInstall([fds EXCEPT ![st_fd] = "free"], "read", "exited")
    /\ UNCHANGED <<driver, uart, dev_fd, main, hci, back, history>>

Read ==
    /\ pc = "read"
    /\ ReadFile
    /\ back' = "repoll"
    /\ pc' = CASE ReadsInstall = "1" -> "names"
               [] ReadsInstall = "0" -> "uninstall"
               [] OTHER -> "repoll"
    /\ UNCHANGED <<driver, st_fd, uart, fds, dev_fd, main, hci, history>>
-----------------------------------------------------------------------------
(* st_uart_config *)

Uninstall ==
    /\ pc = "uninstall"
    /\ Close(dev_fd)
    /\ pc' = back
    /\ failed' = FALSE
    /\ UNCHANGED <<driver, file, host, chip, answer, dev_fd, main, hci, back, opened, reset>>

\* A way out before the UART is open.
GiveUp ==
    /\ pc \in {"names", "open_uart"}
    /\ dev_fd' = IF pc = "names" THEN dev_fd ELSE -1
    /\ opened' = (opened \/ pc # "names")
    /\ failed' = TRUE
    /\ pc' = back
    /\ UNCHANGED <<driver, file, uart, fds, main, hci, back, held, reset>>

\* dev_name, baud_rate and flow_cntrl, each of them opened, read and closed.
ReadNames ==
    /\ pc = "names" /\ FreeFds # {}
    /\ pc' = "open_uart"
    /\ UNCHANGED <<driver, file, uart, fds, dev_fd, main, hci, back, history>>

OpenUart ==
    /\ pc = "open_uart" /\ FreeFds # {}
    /\ dev_fd' = Lowest(FreeFds)
    /\ fds' = [fds EXCEPT ![Lowest(FreeFds)] = "uart"]
    /\ opened' = TRUE
    /\ pc' = "set_baud"
    /\ UNCHANGED <<driver, file, uart, main, hci, back, failed, held, reset>>

\* Mutant of Fail: the descriptor of a failed install is left open.
FailOpen ==
    /\ failed' = TRUE
    /\ pc' = back
    /\ UNCHANGED <<driver, file, uart, fds, dev_fd, main, hci, back, opened, held, reset>>

\* Every way out with the UART open closes it; dev_fd keeps the number.
Fail ==
    /\ Close(dev_fd)
    /\ failed' = TRUE
    /\ pc' = back
    /\ UNCHANGED <<driver, file, host, chip, answer, dev_fd, main, hci, back, opened, reset>>

ConfigFails ==
    /\ pc \in {"set_baud", "write_speed", "set_custom", "write_addr", "set_ldisc"}
    /\ Fail

Goto(label) == pc' = label /\ UNCHANGED <<driver, file, fds, dev_fd, main, back>>

set_baud_rate ==
    /\ pc = "set_baud"
    /\ host' = "115200"
    /\ tty' = <<>>
    /\ reset' = FALSE
    /\ Goto(IF CustomBaud THEN "write_speed" ELSE "set_ldisc")
    /\ UNCHANGED <<ldisc, chip, answer, hci, opened, failed, held>>

\* The chip understands what comes at its speed.
WriteCommand(at, command) ==
    /\ pc = at
    /\ answer' = IF host = chip THEN [opcode |-> command, sent |-> 0] ELSE answer
    /\ opcode' = command /\ retries' = 0
    /\ Goto("prefix")
    /\ UNCHANGED <<ldisc, host, chip, tty, history>>

\* read_hci_event: the first byte is waited for, four times; what comes before it is
\* skipped.  A fifth read that succeeds is a failure as well.
ReadPrefix ==
    /\ pc = "prefix"
    /\ \/ /\ tty = <<>> /\ retries < 4
          /\ retries' = retries + 1
          /\ UNCHANGED <<uart, history, opcode>> /\ Goto("prefix")
       \/ /\ tty # <<>> /\ retries < 4
          /\ tty' = Tail(tty)
          /\ Goto(IF Head(tty) = "prefix" THEN "header" ELSE "prefix")
          /\ UNCHANGED <<ldisc, host, chip, answer, hci, history>>
       \/ retries >= 4 /\ Fail

\* Mutant of CommandComplete: the status of the event is ignored.
AnyStatus(part) == part \in {opcode, "refused"}

\* read_command_complete looks at the opcode and at the status.
CommandComplete(part) == part = opcode

\* The rest is not waited for.
ReadHeader ==
    /\ pc = "header"
    /\ IF tty = <<>> THEN Fail
       ELSE /\ tty' = Tail(tty)
            /\ Goto("params")
            /\ UNCHANGED <<ldisc, host, chip, answer, hci, history>>

ReadParams ==
    /\ pc = "params"
    /\ IF tty = <<>> \/ ~CommandComplete(Head(tty)) THEN Fail
       ELSE /\ tty' = Tail(tty)
            /\ Goto(IF opcode = "speed" THEN "set_custom" ELSE "set_ldisc")
            /\ UNCHANGED <<ldisc, host, chip, answer, hci, history>>

set_custom_baud_rate ==
    /\ pc = "set_custom"
    /\ host' = "custom"
    /\ tty' = <<>>
    /\ Goto(IF HasAddress THEN "write_addr" ELSE "set_ldisc")
    /\ UNCHANGED <<ldisc, chip, answer, hci, history>>

SetLineDiscipline ==
    /\ pc = "set_ldisc"
    /\ ldisc' = TRUE
    /\ failed' = FALSE
    /\ held' = held \cup {dev_fd}
    /\ Goto(back)
    /\ UNCHANGED <<host, chip, answer, tty, hci, opened, reset>>
-----------------------------------------------------------------------------
Uim ==
    \/ OpenEntry \/ RePoll \/ Poll \/ Read
    \/ Uninstall \/ ReadNames \/ OpenUart \/ set_baud_rate
    \/ WriteCommand("write_speed", "speed") \/ WriteCommand("write_addr", "address")
    \/ ReadPrefix \/ ReadHeader \/ ReadParams \/ set_custom_baud_rate
    \/ SetLineDiscipline

Next == Uim \/ GiveUp \/ ConfigFails \/ Populate \/ Ask \/ Notify \/ ChipAnswers

\* The process goes on, and what the driver stores it announces.
Fairness == WF_vars(Uim \/ GiveUp \/ ConfigFails) /\ WF_vars(Notify)

Spec == Init /\ [][Next]_vars /\ Fairness
-----------------------------------------------------------------------------
\* An install that was handled while another was in force: dev_fd names the second
\* UART, and the first one is never closed.
Repeated == held \ {dev_fd} # {}

\* A descriptor of the UART is open between two events only if the discipline was set
\* through it: every failure of st_uart_config closes it.  The attribute that main
\* polls is open too, unless an uninstall has closed it: dev_fd is 0 until the first
\* install gets as far as the UART, the uninstall closes the standard input, and from
\* then on 0 is what main opens and the next uninstall closes.
DescriptorsKept ==
    /\ \A d \in DOMAIN fds : fds[d] = "uart" => d = dev_fd \/ d \in held
    /\ pc = "poll" =>
          /\ \A d \in DOMAIN fds : fds[d] = "uart" => d \in held
          /\ fds[st_fd] = "install" \/ (~opened /\ dev_fd = st_fd)

\* While the discipline is on, the UART and the chip have the same speed, whenever the
\* chip answered, refused or was late, unless an install was repeated, which sets the
\* UART to 115200 under a chip that is faster, or the driver has reset the chip since
\* this install began with the UART: the event of an older install that comes late may
\* then stand for the answer of a chip that is slow again.
SpeedsAgree == ldisc /\ ~Repeated /\ ~reset => host = chip

\* Whatever the driver asks for last is what it gets: no change of the attribute is
\* missed, the one between the read and the poll included.  The exceptions are the
\* code's: a failed install is not tried again, and a repeated one cannot be undone.
DriverIsServed ==
    /\ <>[](install = "1") => <>[](ldisc \/ failed \/ Repeated \/ pc = "exited")
    /\ <>[](install = "0") => <>[](~ldisc \/ Repeated \/ pc = "exited")
=============================================================================
