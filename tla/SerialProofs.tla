---------------------------- MODULE SerialProofs ----------------------------
(***************************************************************************)
(* Proofs about the two programs that configure a chip over a serial line: *)
(* Uim, for every number of descriptors from three on, with and without a  *)
(* custom speed and a BD address, and for any number of changes of the     *)
(* attribute; and IdtDownload, for every length of the images and of a     *)
(* frame, and any numbers of attempts.                                     *)
(***************************************************************************)
EXTENDS Uim, IdtDownload, SequenceTheorems, FiniteSetTheorems, WellFoundedInduction, TLAPS

Fds == 0..MaxFd
Uarts == {d \in Fds : fds[d] = "uart"}
Speeds == {"115200", "custom"}
Parts == {"prefix", "header", "params", "speed", "address", "refused"}

\* The places between OpenUart and the end of st_uart_config.
Config == {"set_baud", "write_speed", "prefix", "header", "params", "set_custom",
           "write_addr", "set_ldisc"}
\* The places of the loop of main.
Loop == {"repoll", "poll", "read", "uninstall", "names", "open_uart"} \cup Config

TypeOK ==
    /\ entry \in {"none", "new", "old"} /\ install \in {"0", "1"}
    /\ changes \in Nat /\ notify \in BOOLEAN
    /\ event \in BOOLEAN /\ unread \in BOOLEAN /\ st_fd \in -1..MaxFd
    /\ ldisc \in BOOLEAN /\ host \in Speeds /\ chip \in Speeds
    /\ answer \in [opcode : {"none", "speed", "address"}, sent : 0..2]
    /\ tty \in Seq(Parts)
    /\ fds \in [Fds -> {"stdin", "free", "install", "uart"}] /\ dev_fd \in -1..MaxFd
    /\ pc \in Loop \cup {"open", "exited"} /\ trials \in Int /\ names \in {"new", "old"}
    /\ opcode \in {"none", "speed", "address"} /\ retries \in 0..4
    /\ back \in {"poll", "repoll"}
    /\ opened \in BOOLEAN /\ failed \in BOOLEAN /\ reset \in BOOLEAN
    /\ held \in SUBSET Fds

\* Nothing was opened before the attribute was found.
StartInv ==
    pc = "open" =>
        /\ ~opened /\ dev_fd = 0 /\ held = {}
        /\ fds = [d \in Fds |-> IF d = 0 THEN "stdin" ELSE "free"]

\* A descriptor of the UART is open because the discipline was set through it, or
\* because st_uart_config is at work with it.
HeldInv ==
    /\ held \subseteq Uarts
    /\ \A d \in Uarts : d \in held \/ (pc \in Config /\ d = dev_fd)
    /\ pc \in Config => dev_fd \in Uarts /\ dev_fd \notin held

\* The discipline is on only as long as a descriptor holds it.
LdiscInv == ldisc => held # {}

\* What main polls is open: the number 1 above the standard input, or 0.
Polled == fds[st_fd] = "install" /\ (st_fd = 1 => fds[0] = "stdin")
\* An uninstall before the first install has closed 0, which may be what main polls.
ZeroClosed == ~opened /\ fds[0] = "free" /\ (st_fd = 1 => fds[1] = "install")

\* The descriptors of the UART lie above the one that main polls, which is why a
\* second uninstall, with the number that the first one closed, cannot close that.
LoopInv ==
    pc \in Loop =>
        /\ st_fd \in {0, 1}
        /\ IF opened THEN dev_fd = -1 \/ dev_fd > st_fd ELSE dev_fd = 0 /\ Uarts = {}
        /\ \A d \in Uarts : d > st_fd
        /\ Polled \/ (ZeroClosed /\ (pc = "poll" \/ (pc = "repoll" /\ ~unread)))
        /\ pc = "uninstall" => back = "repoll" /\ ~unread

\* The chip has changed its speed, unless it was reset.
Fast == chip = "custom" \/ reset
Agreed == host = "custom" /\ Fast

\* An event that says so was sent by a chip that has changed its speed, and from
\* set_custom_baud_rate on the UART has the same.
SpeedInv ==
    /\ \A n \in DOMAIN tty : tty[n] = "speed" => Fast
    /\ pc = "set_custom" => Fast
    /\ pc = "write_addr" => Agreed
    /\ pc \in {"prefix", "header", "params"} => opcode \in {"speed", "address"}
    /\ pc \in {"prefix", "header", "params"} /\ opcode = "address" => Agreed
    /\ pc = "set_ldisc" /\ CustomBaud => Agreed
    /\ ldisc /\ held \subseteq {dev_fd} /\ CustomBaud => Agreed

\* Without a custom speed nobody leaves 115200.
PlainInv ==
    ~CustomBaud =>
        /\ host = "115200" /\ chip = "115200" /\ answer.opcode = "none"
        /\ pc \notin {"write_speed", "prefix", "header", "params", "set_custom", "write_addr"}

IInv == TypeOK /\ StartInv /\ HeldInv /\ LdiscInv /\ LoopInv /\ SpeedInv /\ PlainInv
-----------------------------------------------------------------------------
(* What the functions of Uim do. *)

\* Every set of numbers has a least one, by the well-foundedness of their order.
LEMMA LeastExists ==
    ASSUME NEW S \in SUBSET Nat, S # {}
    PROVE  \E n \in S : \A m \in S : n <= m
<1> DEFINE R == {ss \in Nat \X Nat : ss[1] < ss[2]}
<1>1. IsWellFoundedOn(R, Nat)
  BY NatLessThanWellFounded DEF OpToRel
<1> HIDE DEF R
<1>2. PICK n \in S : \A m \in S : ~(<<m, n>> \in R)
  BY <1>1, WFMin, Zenon
<1>3. ASSUME NEW m \in S PROVE n <= m
  <2>1. m \in Nat /\ n \in Nat
    OBVIOUS
  <2>2. m < n => <<m, n>> \in R
    BY <2>1 DEF R
  <2> QED
    BY <1>2, <2>1, <2>2
<1> QED
  BY <1>3

\* The kernel gives out the lowest number that is free.
LEMMA LowestIsLeast ==
    ASSUME NEW S \in SUBSET Fds, S # {}
    PROVE  /\ Lowest(S) \in S
           /\ \A e \in S : Lowest(S) <= e
<1>1. S \in SUBSET Nat
  BY MaxFdAssumption DEF Fds
<1>2. \E n \in S : \A m \in S : n <= m
  BY <1>1, LeastExists
<1> QED
  BY <1>2 DEF Lowest

\* close(dev_fd), with the descriptor of the UART that is being configured or with
\* whatever number an earlier install has left: the other descriptors stay as they
\* were, and the discipline goes off with the last one that holds it.
LEMMA CloseKeeps ==
    ASSUME TypeOK, HeldInv, LdiscInv, Close(dev_fd)
    PROVE  /\ fds' \in [Fds -> {"stdin", "free", "install", "uart"}]
           /\ \A d \in Fds : fds'[d] = IF d = dev_fd THEN "free" ELSE fds[d]
           /\ Uarts' = Uarts \ {dev_fd}
           /\ held' = held \ {dev_fd} /\ held' \in SUBSET Fds
           /\ held' = Uarts'
           /\ ldisc' => ldisc /\ held' # {}
           /\ ldisc' \in BOOLEAN
           /\ tty' \in {tty, <<>>} /\ tty' \in Seq(Parts)
<1>0. DOMAIN fds = Fds
  BY DEF TypeOK
<1>1. /\ fds' = [e \in Fds |-> IF e = dev_fd THEN "free" ELSE fds[e]]
      /\ held' = held \ {dev_fd}
  BY <1>0 DEF Close
<1>2. /\ fds' \in [Fds -> {"stdin", "free", "install", "uart"}]
      /\ \A d \in Fds : fds'[d] = IF d = dev_fd THEN "free" ELSE fds[d]
  BY <1>1 DEF TypeOK
<1>3. Uarts' = Uarts \ {dev_fd}
  BY <1>2 DEF Uarts
<1>4. held' = Uarts' /\ held' \in SUBSET Fds
  BY <1>1, <1>3 DEF HeldInv, TypeOK, Uarts
<1>5. CASE \E e \in Fds : fds'[e] = "uart"
  <2>1. ldisc' = ldisc /\ tty' = tty
    BY <1>0, <1>5 DEF Close
  <2>2. held' # {}
    BY <1>4, <1>5 DEF Uarts
  <2> QED
    BY <2>1, <2>2, <1>1, <1>2, <1>3, <1>4 DEF TypeOK
<1>6. CASE ~(\E e \in Fds : fds'[e] = "uart")
  <2>1. ldisc' = FALSE /\ tty' = <<>>
    BY <1>0, <1>6 DEF Close
  <2>2. tty' \in Seq(Parts)
    BY <2>1
  <2> QED
    BY <2>1, <2>2, <1>1, <1>2, <1>3, <1>4
<1> QED
  BY <1>5, <1>6

\* What a close leaves of the invariant, wherever the process goes on from there.
\* The tty keeps its contents or loses them, so no event of the chip appears.
LEMMA CloseSpeed ==
    ASSUME TypeOK, HeldInv, LdiscInv, SpeedInv, Close(dev_fd),
           pc' \in {"poll", "repoll"}, UNCHANGED <<host, chip, reset, dev_fd>>
    PROVE  SpeedInv'
<1>1. /\ held' = held \ {dev_fd}
      /\ ldisc' => ldisc /\ held' # {}
      /\ tty' \in {tty, <<>>}
  BY CloseKeeps
<1>2. \A n \in DOMAIN tty' : tty'[n] = "speed" => Fast'
  BY <1>1 DEF SpeedInv, Fast
<1>3. ~(ldisc' /\ held' \subseteq {dev_fd'})
  BY <1>1
<1> QED
  BY <1>2, <1>3 DEF SpeedInv
-----------------------------------------------------------------------------
(* The driver, sysfs and the chip. *)

\* Only the names of the attributes appear.
LEMMA PopulateStep ==
    ASSUME IInv, Populate
    PROVE  IInv'
<1> USE DEF IInv
<1>1. TypeOK'
  BY DEF Populate, driver, file, uart, main, hci, history, TypeOK
<1>2. StartInv'
  BY DEF Populate, driver, file, uart, main, hci, history, TypeOK, StartInv
<1>3. HeldInv'
  BY DEF Populate, driver, file, uart, main, hci, history, TypeOK, HeldInv, Config,
         Uarts, Fds
<1>4. LdiscInv'
  BY DEF Populate, driver, file, uart, main, hci, history, TypeOK, LdiscInv
<1>5. LoopInv'
  BY DEF Populate, driver, file, uart, main, hci, history, TypeOK, LoopInv, Loop,
         Config, Uarts, Polled, ZeroClosed, Fds
<1>6. SpeedInv'
  BY DEF Populate, driver, file, uart, main, hci, history, TypeOK, SpeedInv, HeldInv,
         Fast, Agreed
<1>7. PlainInv'
  BY DEF Populate, driver, file, uart, main, hci, history, TypeOK, PlainInv
<1> QED
  BY <1>1, <1>2, <1>3, <1>4, <1>5, <1>6, <1>7

\* The chip that the driver resets is slow again, and the reset is remembered.
LEMMA AskStep ==
    ASSUME IInv, Ask
    PROVE  IInv'
<1> USE DEF IInv
<1>1. TypeOK'
  <2>1. notify' \in BOOLEAN /\ reset' \in BOOLEAN
    BY DEF Ask, TypeOK
  <2>2. install' \in {"0", "1"} /\ changes' \in Nat /\ chip' \in Speeds
    BY DEF Ask, TypeOK, Speeds
  <2>3. answer' \in [opcode : {"none", "speed", "address"}, sent : 0..2]
    BY DEF Ask, TypeOK, Silent
  <2> QED
    BY <2>1, <2>2, <2>3 DEF Ask, driver, file, uart, main, hci, history, TypeOK
<1>2. StartInv'
  BY DEF Ask, driver, file, uart, main, hci, history, Silent, TypeOK, StartInv
<1>3. HeldInv'
  BY DEF Ask, driver, file, uart, main, hci, history, Silent, TypeOK, HeldInv, Config,
         Uarts, Fds
<1>4. LdiscInv'
  BY DEF Ask, driver, file, uart, main, hci, history, Silent, TypeOK, LdiscInv
<1>5. LoopInv'
  BY DEF Ask, driver, file, uart, main, hci, history, Silent, TypeOK, LoopInv, Loop,
         Config, Uarts, Polled, ZeroClosed, Fds
<1>6. SpeedInv'
  BY DEF Ask, driver, file, uart, main, hci, history, Silent, TypeOK, SpeedInv,
         HeldInv, Fast, Agreed
<1>7. PlainInv'
  BY DEF Ask, driver, file, uart, main, hci, history, Silent, TypeOK, PlainInv
<1> QED
  BY <1>1, <1>2, <1>3, <1>4, <1>5, <1>6, <1>7

\* Only the event of the attribute is set.
LEMMA NotifyStep ==
    ASSUME IInv, Notify
    PROVE  IInv'
<1> USE DEF IInv
<1>1. TypeOK'
  <2>1. notify' \in BOOLEAN /\ event' \in BOOLEAN
    BY DEF Notify
  <2> QED
    BY <2>1 DEF Notify, driver, file, uart, main, hci, history, TypeOK
<1>2. StartInv'
  BY DEF Notify, driver, file, uart, main, hci, history, TypeOK, StartInv
<1>3. HeldInv'
  BY DEF Notify, driver, file, uart, main, hci, history, TypeOK, HeldInv, Config,
         Uarts, Fds
<1>4. LdiscInv'
  BY DEF Notify, driver, file, uart, main, hci, history, TypeOK, LdiscInv
<1>5. LoopInv'
  BY DEF Notify, driver, file, uart, main, hci, history, TypeOK, LoopInv, Loop, Config,
         Uarts, Polled, ZeroClosed, Fds
<1>6. SpeedInv'
  BY DEF Notify, driver, file, uart, main, hci, history, TypeOK, SpeedInv, HeldInv,
         Fast, Agreed
<1>7. PlainInv'
  BY DEF Notify, driver, file, uart, main, hci, history, TypeOK, PlainInv
<1> QED
  BY <1>1, <1>2, <1>3, <1>4, <1>5, <1>6, <1>7

\* The piece that says that the speed was changed is sent by a chip that changes it
\* in this step; without a custom speed the chip has nothing to answer.
LEMMA ChipAnswersStep ==
    ASSUME IInv, ChipAnswers
    PROVE  IInv'
<1> USE DEF IInv
<1>a. PICK part \in Parts :
           /\ tty' \in {tty, Append(tty, part)}
           /\ chip' = IF part = "speed" THEN "custom" ELSE chip
           /\ part = "speed" => answer.opcode = "speed"
  <2>1. answer.opcode \in {"speed", "address"} /\ answer.sent \in {0, 1, 2}
    BY DEF ChipAnswers, TypeOK
  <2>2. PICK part \in IF answer.sent = 2 THEN {answer.opcode, "refused"}
                      ELSE {EventParts[answer.sent + 1]} :
          /\ tty' = IF \E d \in DOMAIN fds : fds[d] = "uart" THEN Append(tty, part) ELSE tty
          /\ chip' = IF part = "speed" THEN "custom" ELSE chip
    BY DEF ChipAnswers
  <2>3. answer.sent # 2 => EventParts[answer.sent + 1] \in {"prefix", "header"}
    BY <2>1 DEF EventParts
  <2>4. part \in Parts /\ (part = "speed" => answer.opcode = "speed")
    BY <2>1, <2>2, <2>3 DEF Parts
  <2> QED
    BY <2>2, <2>4
<1>b. /\ answer' \in [opcode : {"none", "speed", "address"}, sent : 0..2]
      /\ answer'.opcode \in {"none", answer.opcode}
  BY DEF ChipAnswers, TypeOK, Silent
<1>c. tty' \in Seq(Parts)
  BY <1>a, AppendProperties DEF TypeOK
<1>d. chip' \in {chip, "custom"} /\ chip' \in Speeds
  BY <1>a DEF TypeOK, Speeds
<1>e. Fast => Fast'
  BY <1>d DEF ChipAnswers, history, Fast
<1>f. ASSUME NEW n \in DOMAIN tty', tty'[n] = "speed" PROVE Fast'
  <2>1. CASE tty' = tty
    BY <2>1, <1>e, <1>f DEF SpeedInv
  <2>2. CASE tty' = Append(tty, part) /\ n \in DOMAIN tty /\ tty'[n] = tty[n]
    BY <2>2, <1>e, <1>f DEF SpeedInv
  <2>3. CASE tty' = Append(tty, part) /\ tty'[n] = part
    BY <2>3, <1>a, <1>f DEF Fast
  <2>4. tty \in Seq(Parts)
    BY DEF TypeOK
  <2>5. ASSUME tty' = Append(tty, part)
        PROVE  (n \in DOMAIN tty /\ tty'[n] = tty[n]) \/ tty'[n] = part
    BY <2>4, <2>5, <1>f, AppendProperties, LenProperties
  <2> QED
    BY <2>1, <2>2, <2>3, <2>5, <1>a
<1>1. TypeOK'
  BY <1>b, <1>c, <1>d DEF ChipAnswers, TypeOK, driver, file, main, hci, history
<1>2. StartInv'
  BY DEF ChipAnswers, driver, file, uart, main, hci, history, EventParts, TypeOK,
         StartInv
<1>3. HeldInv'
  BY DEF ChipAnswers, driver, file, uart, main, hci, history, EventParts, TypeOK,
         HeldInv, Config, Uarts, Fds
<1>4. LdiscInv'
  BY DEF ChipAnswers, driver, file, uart, main, hci, history, EventParts, TypeOK,
         LdiscInv
<1>5. LoopInv'
  BY DEF ChipAnswers, driver, file, uart, main, hci, history, EventParts, TypeOK,
         LoopInv, Loop, Config, Uarts, Polled, ZeroClosed, Fds
<1>6. SpeedInv'
  <2>1. UNCHANGED <<host, pc, opcode, ldisc, held, dev_fd>>
    BY DEF ChipAnswers, hci, history
  <2>2. Agreed => Agreed'
    BY <1>e, <2>1 DEF Agreed
  <2> QED
    BY <1>e, <1>f, <2>1, <2>2 DEF SpeedInv
<1>7. PlainInv'
  BY <1>a, <1>b DEF ChipAnswers, PlainInv, TypeOK
<1> QED
  BY <1>1, <1>2, <1>3, <1>4, <1>5, <1>6, <1>7
-----------------------------------------------------------------------------
(* The loop of main. *)

\* Opening the attribute takes the lowest number that is free and leaves the
\* descriptors of the UART alone; when it cannot be opened nothing changes.
LEMMA OpenInstallOpens ==
    ASSUME NEW table \in [Fds -> {"stdin", "free", "install", "uart"}],
           NEW found, NEW notFound, OpenInstall(table, found, notFound)
    PROVE  /\ fds' \in [Fds -> {"stdin", "free", "install", "uart"}]
           /\ \A d \in Fds : fds'[d] = "uart" <=> table[d] = "uart"
           /\ \/ /\ st_fd' \in Fds /\ table[st_fd'] = "free" /\ pc' = found
                 /\ \A e \in Fds : table[e] = "free" => st_fd' <= e
                 /\ \A e \in Fds : fds'[e] = IF e = st_fd' THEN "install" ELSE table[e]
                 /\ event' = FALSE /\ unread' = TRUE
              \/ /\ st_fd' = -1 /\ fds' = table /\ pc' = notFound
                 /\ UNCHANGED <<event, unread>>
<1> DEFINE free == {d \in Fds : table[d] = "free"}
<1>0. DOMAIN table = Fds
  OBVIOUS
<1>1. CASE entry = names /\ free # {}
  <2>1. /\ st_fd' = Lowest(free) /\ pc' = found
        /\ fds' = [table EXCEPT ![Lowest(free)] = "install"]
        /\ event' = FALSE /\ unread' = TRUE
    BY <1>0, <1>1 DEF OpenInstall
  <2>2. Lowest(free) \in free /\ \A e \in free : Lowest(free) <= e
    BY <1>1, LowestIsLeast
  <2>3. st_fd' \in Fds /\ table[st_fd'] = "free"
    BY <2>1, <2>2
  <2>4. /\ fds' \in [Fds -> {"stdin", "free", "install", "uart"}]
        /\ \A e \in Fds : fds'[e] = IF e = st_fd' THEN "install" ELSE table[e]
    BY <2>1, <2>3
  <2>5. \A e \in Fds : table[e] = "free" => st_fd' <= e
    BY <2>1, <2>2
  <2> QED
    BY <2>1, <2>3, <2>4, <2>5
<1>2. CASE ~(entry = names /\ free # {})
  <2>1. /\ st_fd' = -1 /\ fds' = table /\ pc' = notFound
        /\ UNCHANGED <<event, unread>>
    BY <1>0, <1>2 DEF OpenInstall
  <2> QED
    BY <2>1
<1> QED
  BY <1>1, <1>2

\* The attribute gets number 1, above the standard input.
LEMMA OpenEntryStep ==
    ASSUME IInv, OpenEntry
    PROVE  IInv'
<1> USE DEF IInv
<1>a. OpenInstall(fds, "repoll", IF trials = 1 THEN "exited" ELSE "open")
  BY DEF OpenEntry
<1>b. /\ fds' \in [Fds -> {"stdin", "free", "install", "uart"}]
      /\ \A d \in Fds : fds'[d] = "uart" <=> fds[d] = "uart"
      /\ \/ /\ st_fd' \in Fds /\ fds[st_fd'] = "free" /\ pc' = "repoll"
            /\ \A e \in Fds : fds[e] = "free" => st_fd' <= e
            /\ \A e \in Fds : fds'[e] = IF e = st_fd' THEN "install" ELSE fds[e]
            /\ event' = FALSE /\ unread' = TRUE
         \/ /\ st_fd' = -1 /\ fds' = fds /\ pc' \in {"open", "exited"}
            /\ UNCHANGED <<event, unread>>
  BY <1>a, OpenInstallOpens DEF TypeOK
<1>c. /\ UNCHANGED <<dev_fd, held, ldisc, tty, host, chip, answer, reset, opcode, opened>>
      /\ Uarts' = Uarts
  BY <1>b DEF OpenEntry, uart, hci, history, Uarts
<1>d. /\ ~opened /\ dev_fd = 0 /\ held = {} /\ Uarts = {}
      /\ fds = [d \in Fds |-> IF d = 0 THEN "stdin" ELSE "free"]
  BY DEF StartInv, HeldInv, OpenEntry, Uarts
<1>e. ~ldisc
  BY <1>d DEF LdiscInv
<1>1. TypeOK'
  <2>1. event' \in BOOLEAN /\ unread' \in BOOLEAN
    BY <1>b DEF TypeOK
  <2>2. st_fd' \in -1..MaxFd /\ pc' \in Loop \cup {"open", "exited"}
    BY <1>b, MaxFdAssumption DEF Fds, Loop
  <2>3. trials' \in Int /\ names' \in {"new", "old"}
    BY DEF OpenEntry, TypeOK
  <2> QED
    BY <1>b, <2>1, <2>2, <2>3 DEF OpenEntry, TypeOK, driver, uart, hci, history
<1>2. StartInv'
  BY <1>b, <1>c, <1>d DEF StartInv
<1>3. HeldInv'
  BY <1>b, <1>c, <1>d DEF HeldInv, Config
<1>4. LdiscInv'
  BY <1>c, <1>e DEF LdiscInv
<1>5. LoopInv'
  <2>1. CASE pc' = "repoll"
    <3>1. 0 \in Fds /\ 1 \in Fds /\ fds[0] = "stdin" /\ fds[1] = "free"
      BY <1>d, MaxFdAssumption DEF Fds
    <3>2. st_fd' = 1
      BY <1>b, <1>d, <2>1, <3>1 DEF Fds
    <3>3. Polled'
      BY <1>b, <2>1, <3>1, <3>2 DEF Polled
    <3> QED
      BY <1>c, <1>d, <2>1, <3>2, <3>3 DEF LoopInv
  <2>2. CASE pc' \in {"open", "exited"}
    BY <2>2 DEF LoopInv, Loop, Config
  <2> QED
    BY <1>b, <2>1, <2>2
<1>6. SpeedInv'
  BY <1>b, <1>c, <1>e DEF SpeedInv, Fast, Agreed
<1>7. PlainInv'
  BY <1>b, <1>c DEF PlainInv
<1> QED
  BY <1>1, <1>2, <1>3, <1>4, <1>5, <1>6, <1>7

\* The read finds the value at most once, and none through a number that is closed.
LEMMA RePollStep ==
    ASSUME IInv, RePoll
    PROVE  IInv'
<1> USE DEF IInv
<1>a. /\ unread' \in BOOLEAN /\ event' \in BOOLEAN /\ (unread' => unread)
      /\ pc = "repoll" /\ pc' \in {"names", "poll"} /\ back' = "poll"
      /\ UNCHANGED <<fds, st_fd, dev_fd, held, ldisc, tty, host, chip, answer, reset,
                     opcode, opened>>
  BY DEF RePoll, ReadFile, TypeOK, uart, hci, history
<1>b. Uarts' = Uarts
  BY <1>a DEF Uarts
<1>c. pc' = "names" => unread
  BY DEF RePoll, ReadsInstall, TypeOK
<1>1. TypeOK'
  BY <1>a DEF RePoll, TypeOK, Loop, driver, uart, main, hci, history
<1>2. StartInv'
  BY <1>a DEF StartInv
<1>3. HeldInv'
  BY <1>a, <1>b DEF HeldInv, Config
<1>4. LdiscInv'
  BY <1>a DEF LdiscInv
<1>5. LoopInv'
  BY <1>a, <1>b, <1>c DEF LoopInv, Loop, Polled, ZeroClosed, TypeOK
<1>6. SpeedInv'
  BY <1>a DEF SpeedInv, Fast, Agreed
<1>7. PlainInv'
  BY <1>a DEF PlainInv
<1> QED
  BY <1>1, <1>2, <1>3, <1>4, <1>5, <1>6, <1>7

\* The attribute is opened again under the number that was closed for it, or under 0
\* when an uninstall had closed that: the UART keeps its numbers.
LEMMA PollStep ==
    ASSUME IInv, Poll
    PROVE  IInv'
<1> USE DEF IInv
<1> DEFINE table == [fds EXCEPT ![st_fd] = "free"]
<1>0. /\ pc = "poll" /\ st_fd \in {0, 1} /\ st_fd \in Fds /\ 0 \in Fds /\ 1 \in Fds
      /\ \A d \in Uarts : d > st_fd
      /\ IF opened THEN dev_fd = -1 \/ dev_fd > st_fd ELSE dev_fd = 0 /\ Uarts = {}
      /\ Polled \/ ZeroClosed
  BY MaxFdAssumption DEF Poll, LoopInv, Loop, Fds
<1>1a. table \in [Fds -> {"stdin", "free", "install", "uart"}]
  BY <1>0 DEF TypeOK
<1>1b. \A d \in Fds : table[d] = IF d = st_fd THEN "free" ELSE fds[d]
  BY <1>0 DEF TypeOK
<1>1c. OpenInstall(table, "read", "exited")
  BY DEF Poll
<1> HIDE DEF table
<1>b. /\ fds' \in [Fds -> {"stdin", "free", "install", "uart"}]
      /\ \A d \in Fds : fds'[d] = "uart" <=> table[d] = "uart"
      /\ \/ /\ st_fd' \in Fds /\ table[st_fd'] = "free" /\ pc' = "read"
            /\ \A e \in Fds : table[e] = "free" => st_fd' <= e
            /\ \A e \in Fds : fds'[e] = IF e = st_fd' THEN "install" ELSE table[e]
            /\ event' = FALSE /\ unread' = TRUE
         \/ /\ st_fd' = -1 /\ fds' = table /\ pc' = "exited"
            /\ UNCHANGED <<event, unread>>
  BY <1>1a, <1>1c, OpenInstallOpens, Zenon
<1>c. Uarts' = Uarts
  <2>1. \A d \in Fds : fds'[d] = "uart" <=> fds[d] = "uart"
    BY <1>0, <1>1b, <1>b DEF Uarts
  <2> QED
    BY <2>1 DEF Uarts
<1>d. UNCHANGED <<dev_fd, held, ldisc, tty, host, chip, answer, reset, opcode, opened>>
  BY DEF Poll, uart, hci, history
<1>1. TypeOK'
  <2>1. event' \in BOOLEAN /\ unread' \in BOOLEAN
    BY <1>b DEF TypeOK
  <2>2. st_fd' \in -1..MaxFd /\ pc' \in Loop \cup {"open", "exited"}
    BY <1>b, MaxFdAssumption DEF Fds, Loop
  <2> QED
    BY <1>b, <2>1, <2>2 DEF Poll, TypeOK, driver, uart, main, hci, history
<1>2. StartInv'
  BY <1>b DEF StartInv
<1>3. HeldInv'
  BY <1>0, <1>b, <1>c, <1>d DEF HeldInv, Config
<1>4. LdiscInv'
  BY <1>d DEF LdiscInv
<1>5. LoopInv'
  <2>1. CASE pc' = "read"
    <3>1. st_fd' <= st_fd /\ st_fd' \in {0, 1}
      BY <1>0, <1>1b, <1>b, <2>1 DEF Fds
    <3>2. st_fd' = 1 => fds[0] = "stdin" /\ table[0] = "stdin"
      BY <1>0, <1>1b, <1>b, <2>1, <3>1 DEF Polled, ZeroClosed
    <3>3. Polled'
      BY <1>0, <1>b, <2>1, <3>2 DEF Polled
    <3>4. \A d \in Uarts : d > st_fd'
      BY <1>0, <3>1 DEF Uarts, Fds
    <3>5. opened => dev_fd = -1 \/ dev_fd > st_fd'
      BY <1>0, <3>1 DEF TypeOK
    <3> QED
      BY <1>0, <1>c, <1>d, <2>1, <3>1, <3>3, <3>4, <3>5 DEF LoopInv
  <2>2. CASE pc' = "exited"
    BY <2>2 DEF LoopInv, Loop, Config
  <2> QED
    BY <1>b, <2>1, <2>2
<1>6. SpeedInv'
  BY <1>b, <1>d DEF SpeedInv, Fast, Agreed
<1>7. PlainInv'
  BY <1>b, <1>d DEF PlainInv
<1> QED
  BY <1>1, <1>2, <1>3, <1>4, <1>5, <1>6, <1>7

\* What was read is marked as read, so an uninstall finds the attribute without a value.
LEMMA ReadStep ==
    ASSUME IInv, Read
    PROVE  IInv'
<1> USE DEF IInv
<1>a. /\ unread' \in BOOLEAN /\ event' \in BOOLEAN
      /\ pc = "read" /\ pc' \in {"names", "uninstall", "repoll"} /\ back' = "repoll"
      /\ UNCHANGED <<fds, st_fd, dev_fd, held, ldisc, tty, host, chip, answer, reset,
                     opcode, opened>>
  BY DEF Read, ReadFile, TypeOK, uart, hci, history
<1>b. Uarts' = Uarts
  BY <1>a DEF Uarts
<1>c. pc' = "uninstall" => ~unread'
  BY DEF Read, ReadsInstall, ReadFile, TypeOK
<1>1. TypeOK'
  BY <1>a DEF Read, TypeOK, Loop, driver, uart, main, hci, history
<1>2. StartInv'
  BY <1>a DEF StartInv
<1>3. HeldInv'
  BY <1>a, <1>b DEF HeldInv, Config
<1>4. LdiscInv'
  BY <1>a DEF LdiscInv
<1>5. LoopInv'
  BY <1>a, <1>b, <1>c DEF LoopInv, Loop, Polled, ZeroClosed, TypeOK
<1>6. SpeedInv'
  BY <1>a DEF SpeedInv, Fast, Agreed
<1>7. PlainInv'
  BY <1>a DEF PlainInv
<1> QED
  BY <1>1, <1>2, <1>3, <1>4, <1>5, <1>6, <1>7
-----------------------------------------------------------------------------
(* st_uart_config. *)

\* The number that dev_fd has kept is closed: the UART of the last install, nothing, or
\* 0, when no install has got as far as the UART.
LEMMA UninstallStep ==
    ASSUME IInv, Uninstall
    PROVE  IInv'
<1> USE DEF IInv
<1>0. /\ Close(dev_fd) /\ pc = "uninstall" /\ pc' = "repoll" /\ ~unread
      /\ UNCHANGED <<host, chip, answer, reset, dev_fd, st_fd, unread, opened, opcode>>
  BY DEF Uninstall, LoopInv, Loop, file, hci
<1>b. /\ fds' \in [Fds -> {"stdin", "free", "install", "uart"}]
      /\ \A d \in Fds : fds'[d] = IF d = dev_fd THEN "free" ELSE fds[d]
      /\ Uarts' = Uarts \ {dev_fd}
      /\ held' = Uarts' /\ held' \in SUBSET Fds
      /\ ldisc' => ldisc /\ held' # {}
      /\ ldisc' \in BOOLEAN /\ tty' \in Seq(Parts)
  BY <1>0, CloseKeeps
<1>1. TypeOK'
  <2>1. UNCHANGED <<driver, file, host, chip, answer, dev_fd, main, hci, back, opened, reset>>
    BY DEF Uninstall
  <2>3. failed' \in BOOLEAN
    BY DEF Uninstall
  <2>2. pc' \in Loop
    BY <1>0 DEF Loop
  <2> QED
    BY <1>b, <2>1, <2>2, <2>3 DEF TypeOK, driver, file, main, hci
<1>2. StartInv'
  BY <1>0 DEF StartInv
<1>3. HeldInv'
  BY <1>0, <1>b DEF HeldInv, Config
<1>4. LdiscInv'
  BY <1>b DEF LdiscInv
<1>5. LoopInv'
  <2>1. /\ st_fd \in {0, 1} /\ 0 \in Fds /\ 1 \in Fds /\ Polled
        /\ \A d \in Uarts : d > st_fd
        /\ IF opened THEN dev_fd = -1 \/ dev_fd > st_fd ELSE dev_fd = 0 /\ Uarts = {}
    BY <1>0, MaxFdAssumption DEF LoopInv, Loop, Fds
  <2>2. CASE opened
    <3>1. fds'[st_fd] = fds[st_fd] /\ (st_fd = 1 => fds'[0] = fds[0])
      BY <1>b, <2>1, <2>2
    <3>2. Polled'
      BY <1>0, <2>1, <3>1 DEF Polled
    <3> QED
      BY <1>0, <1>b, <2>1, <2>2, <3>2 DEF LoopInv
  <2>3. CASE ~opened
    <3>1. ZeroClosed'
      BY <1>0, <1>b, <2>1, <2>3 DEF Polled, ZeroClosed
    <3> QED
      BY <1>0, <1>b, <2>1, <2>3, <3>1 DEF LoopInv
  <2> QED
    BY <2>2, <2>3
<1>6. SpeedInv'
  BY <1>0, CloseSpeed
<1>7. PlainInv'
  BY <1>0 DEF PlainInv
<1> QED
  BY <1>1, <1>2, <1>3, <1>4, <1>5, <1>6, <1>7

\* An open of the UART that fails leaves -1, which no later close can take for a
\* descriptor that is open.
LEMMA GiveUpStep ==
    ASSUME IInv, GiveUp
    PROVE  IInv'
<1> USE DEF IInv
<1>a. /\ pc \in {"names", "open_uart"} /\ pc' = back /\ pc' \in {"poll", "repoll"}
      /\ UNCHANGED <<fds, st_fd, held, ldisc, tty, host, chip, answer, reset,
                     opcode, unread, event>>
  BY DEF GiveUp, file, uart, hci, TypeOK
<1>b. Uarts' = Uarts
  BY <1>a DEF Uarts
<1>c. /\ opened' \in BOOLEAN
      /\ \/ dev_fd' = dev_fd /\ opened' = opened
         \/ dev_fd' = -1 /\ opened'
  BY DEF GiveUp, TypeOK
<1>d. held = Uarts /\ held \in SUBSET Fds
  BY <1>a DEF HeldInv, Config, TypeOK
<1>1. TypeOK'
  <2>1. UNCHANGED <<driver, file, uart, fds, main, hci, back, held, reset>>
    BY DEF GiveUp
  <2>2. failed' \in BOOLEAN
    BY DEF GiveUp
  <2>3. dev_fd' \in -1..MaxFd /\ pc' \in Loop
    BY <1>a, <1>c, MaxFdAssumption DEF TypeOK, Loop
  <2> QED
    BY <1>c, <2>1, <2>2, <2>3 DEF TypeOK, driver, file, uart, main, hci
<1>2. StartInv'
  BY <1>a DEF StartInv
<1>3. HeldInv'
  BY <1>a, <1>b, <1>d DEF HeldInv, Config
<1>4. LdiscInv'
  BY <1>a DEF LdiscInv
<1>5. LoopInv'
  <2>1. /\ st_fd \in {0, 1} /\ Polled
        /\ \A d \in Uarts : d > st_fd
        /\ IF opened THEN dev_fd = -1 \/ dev_fd > st_fd ELSE dev_fd = 0 /\ Uarts = {}
    BY <1>a DEF LoopInv, Loop
  <2>2. Polled'
    BY <1>a, <2>1 DEF Polled
  <2> QED
    BY <1>a, <1>b, <1>c, <2>1, <2>2 DEF LoopInv
<1>6. SpeedInv'
  <2>1. ldisc' /\ held' \subseteq {dev_fd'} => ldisc /\ held \subseteq {dev_fd}
    BY <1>a, <1>c, <1>d DEF LdiscInv, Fds
  <2> QED
    BY <1>a, <2>1 DEF SpeedInv, Fast, Agreed
<1>7. PlainInv'
  BY <1>a DEF PlainInv
<1> QED
  BY <1>1, <1>2, <1>3, <1>4, <1>5, <1>6, <1>7

\* The descriptors of the three names are open only within this step.
LEMMA ReadNamesStep ==
    ASSUME IInv, ReadNames
    PROVE  IInv'
<1> USE DEF IInv
<1>a. pc = "names" /\ pc' = "open_uart"
  BY DEF ReadNames
<1>b. UNCHANGED <<driver, file, uart, fds, dev_fd, main, hci, back, history>>
  BY DEF ReadNames
<1>c. UNCHANGED <<fds, st_fd, held, ldisc, tty, host, chip, answer, reset,
                     opcode, unread, dev_fd, opened>>
  BY <1>b DEF file, uart, hci, history
<1>d. Uarts' = Uarts
  BY <1>c DEF Uarts
<1>1. TypeOK'
  <2>1. pc' \in Loop
    BY <1>a DEF Loop
  <2> QED
    BY <1>b, <2>1 DEF TypeOK, driver, file, uart, main, hci, history
<1>2. StartInv'
  BY <1>a DEF StartInv
<1>3. HeldInv'
  BY <1>a, <1>c, <1>d DEF HeldInv, Config
<1>4. LdiscInv'
  BY <1>c DEF LdiscInv
<1>5. LoopInv'
  BY <1>a, <1>c, <1>d DEF LoopInv, Loop, Polled, ZeroClosed
<1>6. SpeedInv'
  BY <1>a, <1>c DEF SpeedInv, Fast, Agreed
<1>7. PlainInv'
  BY <1>a, <1>c DEF PlainInv
<1> QED
  BY <1>1, <1>2, <1>3, <1>4, <1>5, <1>6, <1>7

\* The UART gets a number above the one that main polls, which no descriptor that
\* holds the discipline has.
LEMMA OpenUartStep ==
    ASSUME IInv, OpenUart
    PROVE  IInv'
<1> USE DEF IInv
<1>a. /\ pc = "open_uart" /\ pc' = "set_baud"
      /\ UNCHANGED <<st_fd, held, ldisc, tty, host, chip, answer, reset, opcode, unread>>
  BY DEF OpenUart, file, uart, hci
<1>b. /\ dev_fd' \in Fds /\ fds[dev_fd'] = "free"
      /\ fds' = [fds EXCEPT ![dev_fd'] = "uart"]
      /\ opened' = TRUE
  <2>1. FreeFds \in SUBSET Fds /\ FreeFds # {}
    BY DEF FreeFds, OpenUart, TypeOK
  <2>2. Lowest(FreeFds) \in FreeFds
    BY <2>1, LowestIsLeast
  <2> QED
    BY <2>1, <2>2 DEF OpenUart, FreeFds
<1>c. /\ fds' \in [Fds -> {"stdin", "free", "install", "uart"}]
      /\ \A d \in Fds : fds'[d] = IF d = dev_fd' THEN "uart" ELSE fds[d]
  BY <1>b DEF TypeOK
<1>d. Uarts' = Uarts \cup {dev_fd'} /\ dev_fd' \notin Uarts
  BY <1>b, <1>c DEF Uarts
<1>e. held = Uarts
  BY <1>a DEF HeldInv, Config
<1>1. TypeOK'
  <2>1. UNCHANGED <<driver, file, uart, main, hci, back, failed, held, reset>>
    BY DEF OpenUart
  <2>2. pc' \in Loop /\ dev_fd' \in -1..MaxFd /\ opened' \in BOOLEAN
    BY <1>a, <1>b, MaxFdAssumption DEF Loop, Config, Fds
  <2> QED
    BY <1>c, <2>1, <2>2 DEF TypeOK, driver, file, uart, main, hci
<1>2. StartInv'
  BY <1>a DEF StartInv
<1>3. HeldInv'
  BY <1>a, <1>d, <1>e DEF HeldInv, Config
<1>4. LdiscInv'
  BY <1>a DEF LdiscInv
<1>5. LoopInv'
  <2>1. /\ st_fd \in {0, 1} /\ st_fd \in Fds /\ 0 \in Fds /\ Polled
        /\ \A d \in Uarts : d > st_fd
    BY <1>a, MaxFdAssumption DEF LoopInv, Loop, Fds
  <2>2. dev_fd' # st_fd /\ (st_fd = 1 => dev_fd' # 0)
    BY <1>b, <2>1 DEF Polled
  <2>3. dev_fd' > st_fd
    BY <1>b, <2>1, <2>2 DEF Fds
  <2>4. Polled'
    BY <1>a, <1>c, <2>1, <2>2 DEF Polled
  <2> QED
    BY <1>a, <1>b, <1>d, <2>1, <2>3, <2>4 DEF LoopInv
<1>6. SpeedInv'
  <2>1. ~(ldisc' /\ held' \subseteq {dev_fd'})
    BY <1>a, <1>d, <1>e DEF LdiscInv
  <2> QED
    BY <1>a, <2>1 DEF SpeedInv, Fast, Agreed
<1>7. PlainInv'
  BY <1>a DEF PlainInv
<1> QED
  BY <1>1, <1>2, <1>3, <1>4, <1>5, <1>6, <1>7

\* While st_uart_config goes on with the UART that it has opened, the descriptors keep
\* their places; if the discipline is on, an earlier UART holds it.
LEMMA ConfigGoesOn ==
    ASSUME IInv, pc \in Config, pc' \in Config,
           UNCHANGED <<st_fd, unread, fds, dev_fd, back, ldisc, opened, held>>
    PROVE  /\ StartInv' /\ HeldInv' /\ LdiscInv' /\ LoopInv'
           /\ ~(ldisc' /\ held' \subseteq {dev_fd'})
<1> USE DEF IInv
<1>1. Uarts' = Uarts
  BY DEF Uarts
<1>2. StartInv'
  BY DEF StartInv, Config
<1>3. HeldInv'
  BY <1>1 DEF HeldInv
<1>4. LdiscInv'
  BY DEF LdiscInv
<1>5. LoopInv'
  <2>1. pc \in Loop /\ pc \notin {"poll", "repoll", "uninstall"}
    BY DEF Loop, Config
  <2>2. pc' \notin {"poll", "repoll", "uninstall"}
    BY DEF Config
  <2>3. /\ st_fd \in {0, 1} /\ Polled
        /\ \A d \in Uarts : d > st_fd
        /\ IF opened THEN dev_fd = -1 \/ dev_fd > st_fd ELSE dev_fd = 0 /\ Uarts = {}
    BY <2>1 DEF LoopInv
  <2>4. Polled'
    BY <2>3 DEF Polled
  <2> QED
    BY <1>1, <2>2, <2>3, <2>4 DEF LoopInv
<1>6. ~(ldisc' /\ held' \subseteq {dev_fd'})
  BY DEF HeldInv, LdiscInv
<1> QED
  BY <1>2, <1>3, <1>4, <1>5, <1>6

\* Whichever way st_uart_config fails, the UART that it was working on is closed, and
\* only the earlier ones that hold the discipline stay open.
LEMMA FailStep ==
    ASSUME IInv, pc \in Config, Fail
    PROVE  IInv'
<1> USE DEF IInv
<1>0. /\ Close(dev_fd) /\ pc' = back /\ pc' \in {"poll", "repoll"}
      /\ UNCHANGED <<driver, file, host, chip, answer, dev_fd, main, hci, back, opened, reset>>
  BY DEF Fail, TypeOK
<1>a. UNCHANGED <<st_fd, unread, opcode>>
  BY <1>0 DEF file, hci
<1>b. /\ fds' \in [Fds -> {"stdin", "free", "install", "uart"}]
      /\ \A d \in Fds : fds'[d] = IF d = dev_fd THEN "free" ELSE fds[d]
      /\ Uarts' = Uarts \ {dev_fd}
      /\ held' = Uarts' /\ held' \in SUBSET Fds
      /\ ldisc' => ldisc /\ held' # {}
      /\ ldisc' \in BOOLEAN /\ tty' \in Seq(Parts)
  BY <1>0, CloseKeeps
<1>c. pc \in Loop /\ pc \notin {"poll", "repoll", "uninstall"}
  BY DEF Loop, Config
<1>1. TypeOK'
  <2>1. failed' \in BOOLEAN /\ pc' \in Loop
    BY <1>0 DEF Fail, Loop
  <2> QED
    BY <1>0, <1>b, <2>1 DEF TypeOK, driver, file, main, hci
<1>2. StartInv'
  BY <1>0 DEF StartInv
<1>3. HeldInv'
  BY <1>0, <1>b DEF HeldInv, Config
<1>4. LdiscInv'
  BY <1>b DEF LdiscInv
<1>5. LoopInv'
  <2>1. /\ st_fd \in {0, 1} /\ st_fd \in Fds /\ 0 \in Fds /\ Polled
        /\ \A d \in Uarts : d > st_fd
        /\ opened /\ dev_fd > st_fd
    BY <1>c, MaxFdAssumption DEF LoopInv, HeldInv, Fds
  <2>2. fds'[st_fd] = fds[st_fd] /\ (st_fd = 1 => fds'[0] = fds[0])
    BY <1>b, <2>1
  <2>3. Polled'
    BY <1>a, <2>1, <2>2 DEF Polled
  <2> QED
    BY <1>0, <1>a, <1>b, <2>1, <2>3 DEF LoopInv
<1>6. SpeedInv'
  BY <1>0, CloseSpeed
<1>7. PlainInv'
  BY <1>0 DEF PlainInv
<1> QED
  BY <1>1, <1>2, <1>3, <1>4, <1>5, <1>6, <1>7

\* A system call on the UART that fails.
LEMMA ConfigFailsStep ==
    ASSUME IInv, ConfigFails
    PROVE  IInv'
BY FailStep DEF ConfigFails, Config

\* The flush removes what an older command has left, and the reset is forgotten.
LEMMA SetBaudStep ==
    ASSUME IInv, set_baud_rate
    PROVE  IInv'
<1> USE DEF IInv
<1>a. pc \in Config /\ pc' \in Config
  BY DEF set_baud_rate, Goto, Config
<1>b. UNCHANGED <<st_fd, unread, fds, dev_fd, back, ldisc, opened, held>>
  BY DEF set_baud_rate, Goto, file, hci, history
<1>c. tty' = <<>> /\ host' = "115200" /\ UNCHANGED <<chip, answer, opcode>>
  BY DEF set_baud_rate, hci
<1>d. pc' = IF CustomBaud THEN "write_speed" ELSE "set_ldisc"
  BY DEF set_baud_rate, Goto
<1>1. TypeOK'
  <2>1. tty' \in Seq(Parts) /\ host' \in Speeds /\ pc' \in Loop
    BY <1>a, <1>c DEF Speeds, Loop
  <2>2. reset' \in BOOLEAN
    BY DEF set_baud_rate
  <2> QED
    BY <2>1, <2>2 DEF set_baud_rate, Goto, TypeOK, driver, file, main, hci
<1>2. StartInv'
  BY <1>a, <1>b, ConfigGoesOn
<1>3. HeldInv'
  BY <1>a, <1>b, ConfigGoesOn
<1>4. LdiscInv'
  BY <1>a, <1>b, ConfigGoesOn
<1>5. LoopInv'
  BY <1>a, <1>b, ConfigGoesOn
<1>6. SpeedInv'
  BY <1>a, <1>b, <1>c, <1>d, ConfigGoesOn DEF SpeedInv
<1>7. PlainInv'
  BY <1>c, <1>d, OptionsAssumption DEF PlainInv
<1> QED
  BY <1>1, <1>2, <1>3, <1>4, <1>5, <1>6, <1>7

\* A command is written at the speed of the UART, and the chip may or may not understand
\* it; an event that an older one has caused stays where it is.
LEMMA WriteCommandStep ==
    ASSUME IInv, NEW place, NEW command,
           <<place, command>> \in {<<"write_speed", "speed">>, <<"write_addr", "address">>},
           WriteCommand(place, command)
    PROVE  IInv'
<1> USE DEF IInv
<1>0. \/ place = "write_speed" /\ command = "speed"
      \/ place = "write_addr" /\ command = "address"
  OBVIOUS
<1>a. pc \in Config /\ pc' \in Config /\ pc = place /\ pc' = "prefix"
  BY <1>0 DEF WriteCommand, Goto, Config
<1>b. UNCHANGED <<st_fd, unread, fds, dev_fd, back, ldisc, opened, held>>
  BY DEF WriteCommand, Goto, file, history
<1>c. /\ opcode' = command /\ retries' = 0
      /\ UNCHANGED <<host, chip, tty, reset>>
  BY DEF WriteCommand, history
<1>d. answer' \in {answer, [opcode |-> command, sent |-> 0]}
  BY DEF WriteCommand
<1>1. TypeOK'
  <2>1. /\ answer' \in [opcode : {"none", "speed", "address"}, sent : 0..2]
        /\ opcode' \in {"none", "speed", "address"} /\ retries' \in 0..4 /\ pc' \in Loop
    BY <1>0, <1>a, <1>c, <1>d DEF TypeOK, Loop
  <2> QED
    BY <2>1 DEF WriteCommand, Goto, TypeOK, driver, file, main, history
<1>2. StartInv' /\ HeldInv' /\ LdiscInv' /\ LoopInv' /\ ~(ldisc' /\ held' \subseteq {dev_fd'})
  BY <1>a, <1>b, ConfigGoesOn
<1>3. SpeedInv'
  BY <1>0, <1>a, <1>c, <1>2 DEF SpeedInv, Fast, Agreed
<1>4. PlainInv'
  BY <1>0, <1>a, <1>c DEF PlainInv
<1> QED
  BY <1>1, <1>2, <1>3, <1>4

\* Taking the first piece out of the tty leaves pieces that were there.
LEMMA TakePiece ==
    ASSUME TypeOK, SpeedInv, tty # <<>>, tty' = Tail(tty), UNCHANGED <<chip, reset>>
    PROVE  /\ Head(tty) \in Parts /\ tty' \in Seq(Parts)
           /\ \A n \in DOMAIN tty' : tty'[n] = "speed" => Fast'
           /\ Head(tty) = "speed" => Fast'
<1>1. /\ tty \in Seq(Parts) /\ Head(tty) \in Parts /\ Head(tty) = tty[1]
      /\ 1 \in DOMAIN tty /\ Tail(tty) \in Seq(Parts)
      /\ Len(Tail(tty)) = Len(tty) - 1 /\ Len(tty) \in Nat
      /\ DOMAIN tty = 1..Len(tty) /\ DOMAIN Tail(tty) = 1..Len(Tail(tty))
      /\ \A n \in 1..Len(Tail(tty)) : Tail(tty)[n] = tty[n + 1]
  BY HeadTailProperties, LenProperties, EmptySeq DEF TypeOK
<1>2. Fast' = Fast
  BY DEF Fast
<1>3. \A n \in DOMAIN tty' : n + 1 \in DOMAIN tty /\ tty'[n] = tty[n + 1]
  BY <1>1
<1> QED
  BY <1>1, <1>2, <1>3 DEF SpeedInv

\* What comes before an event is skipped; no event in four attempts is a failure.
LEMMA ReadPrefixStep ==
    ASSUME IInv, ReadPrefix
    PROVE  IInv'
<1> USE DEF IInv
<1>0. pc = "prefix" /\ pc \in Config
  BY DEF ReadPrefix, Config
<1>a. \/ Fail
      \/ tty' = tty /\ UNCHANGED <<uart, history, opcode>> /\ pc' = "prefix" /\ retries' \in 0..4
         /\ Goto("prefix")
      \/ /\ tty # <<>> /\ tty' = Tail(tty) /\ pc' \in {"prefix", "header"}
         /\ \E label \in {"prefix", "header"} : Goto(label) /\ UNCHANGED <<ldisc, host, chip, answer, hci, history>>
  <2>1. CASE tty = <<>> /\ retries < 4
    BY <1>0, <2>1 DEF ReadPrefix, Goto, uart, TypeOK
  <2>2. CASE tty # <<>> /\ retries < 4
    BY <1>0, <2>2 DEF ReadPrefix, Goto
  <2>3. CASE retries >= 4
    BY <1>0, <2>3 DEF ReadPrefix, TypeOK
  <2> QED
    BY <2>1, <2>2, <2>3 DEF TypeOK
<1>1. CASE Fail
  BY <1>0, <1>1, FailStep
<1>2. CASE tty' = tty /\ UNCHANGED <<uart, history, opcode>> /\ pc' = "prefix" /\ retries' \in 0..4
           /\ Goto("prefix")
  <2>b. UNCHANGED <<st_fd, unread, fds, dev_fd, back, ldisc, opened, held, host, chip, reset>>
    BY <1>2 DEF Goto, file, uart, history
  <2>1. StartInv' /\ HeldInv' /\ LdiscInv' /\ LoopInv' /\ ~(ldisc' /\ held' \subseteq {dev_fd'})
    BY <1>0, <1>2, <2>b, ConfigGoesOn DEF Config
  <2>2. TypeOK'
    <3>1. pc' \in Loop
      BY <1>2 DEF Loop, Config
    <3> QED
      BY <1>2, <3>1 DEF TypeOK, Goto, driver, file, uart, main, history
  <2>3. SpeedInv'
    BY <1>0, <1>2, <2>b, <2>1 DEF SpeedInv, Fast, Agreed
  <2>4. PlainInv'
    BY <1>0, <1>2 DEF PlainInv, uart
  <2> QED
    BY <2>1, <2>2, <2>3, <2>4
<1>3. CASE /\ tty # <<>> /\ tty' = Tail(tty) /\ pc' \in {"prefix", "header"}
           /\ \E label \in {"prefix", "header"} : Goto(label) /\ UNCHANGED <<ldisc, host, chip, answer, hci, history>>
  <2>b. UNCHANGED <<st_fd, unread, fds, dev_fd, back, ldisc, opened, held, host, chip, reset, opcode>>
    BY <1>3 DEF Goto, file, hci, history
  <2>c. pc' \in {"prefix", "header"}
    BY <1>3
  <2>1. StartInv' /\ HeldInv' /\ LdiscInv' /\ LoopInv' /\ ~(ldisc' /\ held' \subseteq {dev_fd'})
    BY <1>0, <2>b, <2>c, ConfigGoesOn DEF Config
  <2>d. /\ Head(tty) \in Parts /\ tty' \in Seq(Parts)
        /\ \A n \in DOMAIN tty' : tty'[n] = "speed" => Fast'
        /\ Head(tty) = "speed" => Fast'
    BY <1>3, <2>b, TakePiece
  <2>2. TypeOK'
    <3>1. pc' \in Loop
      BY <2>c DEF Loop, Config
    <3> QED
      BY <1>3, <2>d, <3>1 DEF TypeOK, Goto, driver, file, main, hci, history
  <2>3. SpeedInv'
    <3>1. Agreed => Agreed'
      BY <2>b DEF Agreed, Fast
    <3> QED
      BY <1>0, <1>3, <2>b, <2>c, <2>d, <2>1, <3>1 DEF SpeedInv
  <2>4. PlainInv'
    BY <1>0, <1>3 DEF PlainInv
  <2> QED
    BY <2>1, <2>2, <2>3, <2>4
<1> QED
  BY <1>a, <1>1, <1>2, <1>3

\* An event that stops after its first byte is a failure.
LEMMA ReadHeaderStep ==
    ASSUME IInv, ReadHeader
    PROVE  IInv'
<1> USE DEF IInv
<1>0. pc = "header" /\ pc \in Config
  BY DEF ReadHeader, Config
<1>a. \/ Fail
      \/ /\ tty # <<>> /\ tty' = Tail(tty) /\ pc' = "params"
         /\ Goto("params") /\ UNCHANGED <<ldisc, host, chip, answer, hci, history>>
  BY DEF ReadHeader, Goto
<1>1. CASE Fail
  BY <1>0, <1>1, FailStep
<1>2. CASE /\ tty # <<>> /\ tty' = Tail(tty) /\ pc' = "params"
           /\ Goto("params") /\ UNCHANGED <<ldisc, host, chip, answer, hci, history>>
  <2>b. UNCHANGED <<st_fd, unread, fds, dev_fd, back, ldisc, opened, held, host, chip, reset, opcode>>
    BY <1>2 DEF Goto, file, hci, history
  <2>c. pc' \in {"params"}
    BY <1>2
  <2>1. StartInv' /\ HeldInv' /\ LdiscInv' /\ LoopInv' /\ ~(ldisc' /\ held' \subseteq {dev_fd'})
    BY <1>0, <2>b, <2>c, ConfigGoesOn DEF Config
  <2>d. /\ Head(tty) \in Parts /\ tty' \in Seq(Parts)
        /\ \A n \in DOMAIN tty' : tty'[n] = "speed" => Fast'
        /\ Head(tty) = "speed" => Fast'
    BY <1>2, <2>b, TakePiece
  <2>2. TypeOK'
    <3>1. pc' \in Loop
      BY <2>c DEF Loop, Config
    <3> QED
      BY <1>2, <2>d, <3>1 DEF TypeOK, Goto, driver, file, main, hci, history
  <2>3. SpeedInv'
    <3>1. Agreed => Agreed'
      BY <2>b DEF Agreed, Fast
    <3> QED
      BY <1>0, <1>2, <2>b, <2>c, <2>d, <2>1, <3>1 DEF SpeedInv
  <2>4. PlainInv'
    BY <1>0, <1>2 DEF PlainInv
  <2> QED
    BY <2>1, <2>2, <2>3, <2>4
<1> QED
  BY <1>a, <1>1, <1>2

\* The speed of the UART is about to be changed only when the event says that the chip
\* has changed its own.
LEMMA ReadParamsStep ==
    ASSUME IInv, ReadParams
    PROVE  IInv'
<1> USE DEF IInv
<1>0. pc = "params" /\ pc \in Config
  BY DEF ReadParams, Config
<1>a. \/ Fail
      \/ /\ tty # <<>> /\ tty' = Tail(tty) /\ Head(tty) = opcode /\ pc' = IF opcode = "speed" THEN "set_custom" ELSE "set_ldisc"
         /\ Goto(IF opcode = "speed" THEN "set_custom" ELSE "set_ldisc") /\ UNCHANGED <<ldisc, host, chip, answer, hci, history>>
  BY DEF ReadParams, Goto, CommandComplete
<1>1. CASE Fail
  BY <1>0, <1>1, FailStep
<1>2. CASE /\ tty # <<>> /\ tty' = Tail(tty) /\ Head(tty) = opcode /\ pc' = IF opcode = "speed" THEN "set_custom" ELSE "set_ldisc"
           /\ Goto(IF opcode = "speed" THEN "set_custom" ELSE "set_ldisc") /\ UNCHANGED <<ldisc, host, chip, answer, hci, history>>
  <2>b. UNCHANGED <<st_fd, unread, fds, dev_fd, back, ldisc, opened, held, host, chip, reset, opcode>>
    BY <1>2 DEF Goto, file, hci, history
  <2>c. pc' \in {"set_custom", "set_ldisc"}
    BY <1>2
  <2>1. StartInv' /\ HeldInv' /\ LdiscInv' /\ LoopInv' /\ ~(ldisc' /\ held' \subseteq {dev_fd'})
    BY <1>0, <2>b, <2>c, ConfigGoesOn DEF Config
  <2>d. /\ Head(tty) \in Parts /\ tty' \in Seq(Parts)
        /\ \A n \in DOMAIN tty' : tty'[n] = "speed" => Fast'
        /\ Head(tty) = "speed" => Fast'
    BY <1>2, <2>b, TakePiece
  <2>2. TypeOK'
    <3>1. pc' \in Loop
      BY <2>c DEF Loop, Config
    <3> QED
      BY <1>2, <2>d, <3>1 DEF TypeOK, Goto, driver, file, main, hci, history
  <2>3. SpeedInv'
    <3>1. Agreed => Agreed'
      BY <2>b DEF Agreed, Fast
    <3> QED
      BY <1>0, <1>2, <2>b, <2>c, <2>d, <2>1, <3>1 DEF SpeedInv
  <2>4. PlainInv'
    BY <1>0, <1>2 DEF PlainInv
  <2> QED
    BY <2>1, <2>2, <2>3, <2>4
<1> QED
  BY <1>a, <1>1, <1>2

\* The UART follows the chip.
LEMMA SetCustomStep ==
    ASSUME IInv, set_custom_baud_rate
    PROVE  IInv'
<1> USE DEF IInv
<1>a. pc \in Config /\ pc' \in Config /\ pc = "set_custom"
  BY DEF set_custom_baud_rate, Goto, Config
<1>b. UNCHANGED <<st_fd, unread, fds, dev_fd, back, ldisc, opened, held>>
  BY DEF set_custom_baud_rate, Goto, file, hci, history
<1>c. tty' = <<>> /\ host' = "custom" /\ UNCHANGED <<chip, answer, opcode, reset>>
  BY DEF set_custom_baud_rate, hci, history
<1>d. pc' \in {"write_addr", "set_ldisc"}
  BY DEF set_custom_baud_rate, Goto
<1>1. TypeOK'
  <2>1. tty' \in Seq(Parts) /\ host' \in Speeds /\ pc' \in Loop
    BY <1>a, <1>c DEF Speeds, Loop
  <2> QED
    BY <2>1 DEF set_custom_baud_rate, Goto, TypeOK, driver, file, main, hci, history
<1>2. StartInv'
  BY <1>a, <1>b, ConfigGoesOn
<1>3. HeldInv'
  BY <1>a, <1>b, ConfigGoesOn
<1>4. LdiscInv'
  BY <1>a, <1>b, ConfigGoesOn
<1>5. LoopInv'
  BY <1>a, <1>b, ConfigGoesOn
<1>6. SpeedInv'
  <2>1. Agreed'
    BY <1>a, <1>c DEF SpeedInv, Agreed, Fast
  <2> QED
    BY <1>a, <1>c, <1>d, <2>1 DEF SpeedInv
<1>7. PlainInv'
  BY <1>a DEF PlainInv
<1> QED
  BY <1>1, <1>2, <1>3, <1>4, <1>5, <1>6, <1>7

\* The discipline goes on with the UART and the chip at one speed.
LEMMA SetLineDisciplineStep ==
    ASSUME IInv, SetLineDiscipline
    PROVE  IInv'
<1> USE DEF IInv
<1>a. pc = "set_ldisc" /\ pc' = back /\ pc' \in {"poll", "repoll"}
  BY DEF SetLineDiscipline, Goto, TypeOK
<1>b. UNCHANGED <<st_fd, unread, fds, dev_fd, back, opened, host, chip, answer, tty, reset, opcode>>
  BY DEF SetLineDiscipline, Goto, file, hci
<1>c. ldisc' = TRUE /\ held' = held \cup {dev_fd}
  BY DEF SetLineDiscipline
<1>d. Uarts' = Uarts
  BY <1>b DEF Uarts
<1>e. dev_fd \in Uarts /\ held' = Uarts
  BY <1>a, <1>c DEF HeldInv, Config
<1>1. TypeOK'
  <2>1. /\ ldisc' \in BOOLEAN /\ failed' \in BOOLEAN /\ held' \in SUBSET Fds
        /\ pc' \in Loop
    BY <1>a, <1>e DEF SetLineDiscipline, Uarts, Loop
  <2> QED
    BY <2>1 DEF SetLineDiscipline, Goto, TypeOK, driver, file, main, hci
<1>2. StartInv'
  BY <1>a DEF StartInv
<1>3. HeldInv'
  BY <1>a, <1>d, <1>e DEF HeldInv, Config
<1>4. LdiscInv'
  BY <1>c DEF LdiscInv
<1>5. LoopInv'
  <2>1. /\ st_fd \in {0, 1} /\ Polled
        /\ \A d \in Uarts : d > st_fd
        /\ IF opened THEN dev_fd = -1 \/ dev_fd > st_fd ELSE dev_fd = 0 /\ Uarts = {}
    BY <1>a DEF LoopInv, Loop, Config
  <2>2. Polled'
    BY <1>b, <2>1 DEF Polled
  <2> QED
    BY <1>a, <1>b, <1>d, <2>1, <2>2 DEF LoopInv
<1>6. SpeedInv'
  <2>1. CustomBaud => Agreed'
    BY <1>a, <1>b DEF SpeedInv, Agreed, Fast
  <2> QED
    BY <1>a, <1>b, <2>1 DEF SpeedInv, Fast
<1>7. PlainInv'
  BY <1>a, <1>b DEF PlainInv
<1> QED
  BY <1>1, <1>2, <1>3, <1>4, <1>5, <1>6, <1>7
-----------------------------------------------------------------------------
(* The theorems. *)

\* The initial states, whatever entries sysfs has by then.
LEMMA InitInvariant == Init => IInv
<1> SUFFICES ASSUME Init PROVE IInv
  OBVIOUS
<1>0. 0 \in Fds
  BY MaxFdAssumption DEF Fds
<1>1. TypeOK
  <2>1. fds \in [Fds -> {"stdin", "free", "install", "uart"}]
    BY DEF Init, Fds
  <2>2. /\ answer \in [opcode : {"none", "speed", "address"}, sent : 0..2]
        /\ tty \in Seq(Parts) /\ pc \in Loop \cup {"open", "exited"}
        /\ host \in Speeds /\ chip \in Speeds /\ held \in SUBSET Fds
    BY DEF Init, Silent, Speeds
  <2>3. st_fd \in -1..MaxFd /\ dev_fd \in -1..MaxFd /\ trials \in Int
    BY MaxFdAssumption DEF Init
  <2>4. /\ entry \in {"none", "new", "old"} /\ install \in {"0", "1"} /\ changes \in Nat
        /\ names \in {"new", "old"} /\ opcode \in {"none", "speed", "address"}
        /\ retries \in 0..4 /\ back \in {"poll", "repoll"}
    BY DEF Init
  <2>5. /\ notify \in BOOLEAN /\ event \in BOOLEAN /\ unread \in BOOLEAN /\ ldisc \in BOOLEAN
        /\ opened \in BOOLEAN /\ failed \in BOOLEAN /\ reset \in BOOLEAN
    BY DEF Init
  <2> QED
    BY <2>1, <2>2, <2>3, <2>4, <2>5 DEF TypeOK
<1>2. StartInv
  BY DEF Init, StartInv, Fds
<1>3. HeldInv
  BY DEF Init, HeldInv, Uarts, Fds, Config
<1>4. LdiscInv /\ LoopInv /\ PlainInv
  BY DEF Init, LdiscInv, LoopInv, Loop, Config, PlainInv, Silent
<1>5. SpeedInv
  BY DEF Init, SpeedInv
<1> QED
  BY <1>1, <1>2, <1>3, <1>4, <1>5 DEF IInv

\* Every step preserves the invariant.
LEMMA NextInvariant == IInv /\ [Next]_vars => IInv'
<1> SUFFICES ASSUME IInv, [Next]_vars PROVE IInv'
  OBVIOUS
<1>1. CASE Uim
  <2>1. ASSUME NEW place, NEW command, WriteCommand(place, command),
               <<place, command>> \in {<<"write_speed", "speed">>, <<"write_addr", "address">>}
        PROVE  IInv'
    BY <2>1, WriteCommandStep
  <2> QED
    BY <1>1, <2>1, OpenEntryStep, RePollStep, PollStep, ReadStep, UninstallStep, ReadNamesStep,
       OpenUartStep, SetBaudStep, ReadPrefixStep, ReadHeaderStep, ReadParamsStep,
       SetCustomStep, SetLineDisciplineStep DEF Uim
<1>2. CASE GiveUp \/ ConfigFails
  BY <1>2, GiveUpStep, ConfigFailsStep
<1>3. CASE Populate \/ Ask \/ Notify \/ ChipAnswers
  BY <1>3, PopulateStep, AskStep, NotifyStep, ChipAnswersStep
<1>4. CASE UNCHANGED vars
  <2>1. UNCHANGED <<entry, install, changes, notify, event, unread, st_fd, ldisc, host, chip,
                    answer, tty, fds, dev_fd, pc, trials, names, opcode, retries, back,
                    opened, failed, held, reset>>
    BY <1>4 DEF vars, driver, file, uart, main, hci, history
  <2>2. Uarts' = Uarts
    BY <2>1 DEF Uarts
  <2>3. TypeOK'
    BY <2>1 DEF IInv, TypeOK
  <2>4. StartInv' /\ HeldInv' /\ LdiscInv' /\ PlainInv'
    BY <2>1, <2>2 DEF IInv, StartInv, HeldInv, LdiscInv, PlainInv
  <2>5. LoopInv'
    BY <2>1, <2>2 DEF IInv, LoopInv, Polled, ZeroClosed
  <2>6. SpeedInv'
    BY <2>1 DEF IInv, SpeedInv, Fast, Agreed
  <2> QED
    BY <2>3, <2>4, <2>5, <2>6 DEF IInv
<1> QED
  BY <1>1, <1>2, <1>3, <1>4 DEF Next

\* The process, the driver and the chip keep the invariant behind the two theorems
\* below, however the chip answers and whichever call fails.
THEOREM InvariantHolds == Spec => []IInv
  BY InitInvariant, NextInvariant, PTL DEF Spec

\* st_uart_config leaves a descriptor of the UART open only if the discipline was set
\* through it, and main polls a descriptor of the attribute, or 0 after an uninstall
\* that came before the first install.
THEOREM DescriptorsAreKept == Spec => []DescriptorsKept
<1>1. IInv => DescriptorsKept
  <2> SUFFICES ASSUME IInv PROVE DescriptorsKept
    OBVIOUS
  <2>1. DOMAIN fds = Fds
    BY DEF IInv, TypeOK
  <2>2. \A d \in DOMAIN fds : fds[d] = "uart" => d = dev_fd \/ d \in held
    BY <2>1 DEF IInv, HeldInv, Uarts
  <2>3. ASSUME pc = "poll"
        PROVE  /\ \A d \in DOMAIN fds : fds[d] = "uart" => d \in held
               /\ fds[st_fd] = "install" \/ (~opened /\ dev_fd = st_fd)
    <3>1. \A d \in DOMAIN fds : fds[d] = "uart" => d \in held
      BY <2>1, <2>3 DEF IInv, HeldInv, Uarts, Config
    <3>2. /\ st_fd \in {0, 1} /\ (Polled \/ ZeroClosed)
          /\ ~opened => dev_fd = 0
      BY <2>3 DEF IInv, LoopInv, Loop
    <3> QED
      BY <3>1, <3>2 DEF Polled, ZeroClosed
  <2> QED
    BY <2>2, <2>3 DEF DescriptorsKept
<1> QED
  BY <1>1, InvariantHolds, PTL

\* While the discipline is on, the UART and the chip have the same speed, however late,
\* broken or old the events are that st_uart_config has read, unless an install was
\* repeated or the driver has reset the chip since the install began with the UART.
THEOREM SpeedsDoAgree == Spec => []SpeedsAgree
<1>1. IInv => SpeedsAgree
  BY OptionsAssumption DEF IInv, SpeedInv, PlainInv, SpeedsAgree, Repeated, Agreed, Fast
<1> QED
  BY <1>1, InvariantHolds, PTL
-----------------------------------------------------------------------------
(* IdtDownload: the inductive invariant. *)

FrameKinds == {"head", "data", "tail"}
FrameSet == [image : {1, 2}, kind : FrameKinds, seq : Nat, data : Seq(Nat), size : Nat]
Answer == [to : FrameSet, byte : {"0xaa", "other"}]
Byte == [byte : {"0xaa", "other"}, late : BOOLEAN]

DownloadTypeOK ==
    /\ images \in Lengths
    /\ image \in {1, 2}
    /\ length \in Nat /\ seq \in Nat
    /\ frame \in FrameSet
    /\ at \in {"write", "read", "sent"}
    /\ wire \in FrameSet \cup {NoFrame}
    /\ air \subseteq Answer
    /\ input \in Seq(Byte)
    /\ rom \in [expect : Nat, stored : Seq(Nat), complete : BOOLEAN]
    /\ skipped \subseteq FrameKinds \X Nat /\ IsFiniteSet(skipped)

Size == images[image]

\* The data of frame number n, and whether the image has such a frame.
DataOf(n) == Slice(Size, (n - 1) * MAX_DATA_LEN, n * MAX_DATA_LEN)
IsData(n) == n >= 1 /\ (n = 1 \/ (n - 1) * MAX_DATA_LEN < Size)
Left(n) == IF n * MAX_DATA_LEN < Size THEN Size - n * MAX_DATA_LEN ELSE 0

\* senddata is at a frame of the image; the numbers count its data frames.
FrameInv ==
    /\ frame.image = image /\ frame.size = Size
    /\ frame.kind = "head" => frame = Header(image, Size) /\ seq = 0 /\ length = Size
    /\ frame.kind = "data" => /\ frame.seq = seq /\ frame.data = DataOf(seq)
                              /\ IsData(seq) /\ length = Left(seq)
    /\ frame.kind = "tail" => /\ frame.seq = seq + 1
                              /\ IsData(seq) /\ length = 0 /\ Left(seq) = 0
    /\ at = "sent" => frame.kind = "tail"

\* What is on the line, in either direction, was written for this image or the one before.
Written(f) ==
    /\ f.image <= image
    /\ f.image = image =>
          /\ f.kind = "head" => f = Header(image, Size)
          /\ f.kind = "data" => f.seq \in 1..seq /\ f.data = DataOf(f.seq)
          /\ f.kind = "tail" => f = frame

LineInv == (wire # NoFrame => Written(wire)) /\ \A a \in air : Written(a.to)

\* The ROM has said yes to f: it can be heard yet, or will be by the read that waits.
Acked(f) ==
    \/ \E a \in air : a.to = f /\ a.byte = "0xaa"
    \/ /\ f = frame /\ at = "read"
       /\ \E k \in DOMAIN input : input[k].byte = "0xaa" /\ ~input[k].late

\* The ROM has had the head of this image.
HeadTaken == IF frame.kind = "head" THEN Acked(frame) ELSE <<"head", 0>> \notin skipped

\* Then it stands at a frame that was begun, behind which all others were left out.
Position ==
    /\ rom.expect \in 1..(seq + 1)
    /\ rom.stored = Slice(Size, 0, (rom.expect - 1) * MAX_DATA_LEN)
    /\ \A m \in rom.expect..(frame.seq - 1) : <<"data", m>> \in skipped
    /\ rom.complete => frame.kind = "tail"

WireAhead ==
    wire # NoFrame =>
        /\ wire.image = image /\ rom.expect <= wire.seq + 1
        /\ wire.kind = "head" => ~rom.complete

AckedInv ==
    /\ \A f \in FrameSet :
          f.image = image /\ Acked(f) =>
              /\ f.kind = "data" => f.seq < rom.expect
              /\ f.kind = "tail" => rom.complete
    /\ at = "sent" /\ <<"tail", frame.seq>> \notin skipped => rom.complete

RomInv ==
    HeadTaken /\ Cardinality(skipped) < SeqModulus - 1 => Position /\ WireAhead /\ AckedInv

DownloadInv == DownloadTypeOK /\ FrameInv /\ LineInv /\ RomInv
-----------------------------------------------------------------------------
(* Numbers and slices. *)

\* Division leaves a remainder.
LEMMA Remainder ==
    ASSUME NEW a \in Int, NEW m \in Nat \ {0}
    PROVE  /\ a % m \in 0..(m - 1)
           /\ a \div m \in Int
           /\ a = m * (a \div m) + (a % m)
  OBVIOUS

\* Two numbers less than m apart that have the same remainder are the same.
LEMMA SameRemainder ==
    ASSUME NEW a \in Int, NEW b \in Int, NEW m \in Nat \ {0},
           a - b < m, b - a < m, a % m = b % m
    PROVE  a = b
<1>1. PICK q \in Int : q = a \div m /\ a = m * q + (a % m)
  BY Remainder
<1>2. PICK r \in Int : r = b \div m /\ b = m * r + (b % m)
  BY Remainder
<1>3. PICK x \in Int : x = a % m
  BY Remainder
<1>4. a - b = m * (q - r)
  BY <1>1, <1>2, <1>3
<1>5. q - r < 1
  <2> SUFFICES ASSUME q - r >= 1 PROVE FALSE
    OBVIOUS
  <2>1. m * (q - r) >= m
    OBVIOUS
  <2> QED
    BY <1>4, <2>1
<1>6. r - q < 1
  <2> SUFFICES ASSUME r - q >= 1 PROVE FALSE
    OBVIOUS
  <2>1. m * (r - q) >= m /\ m * (r - q) = b - a
    BY <1>4
  <2> QED
    BY <2>1
<1> QED
  BY <1>4, <1>5, <1>6

\* A slice is a sequence of the numbers of its bytes.
LEMMA SliceIsSeq ==
    ASSUME NEW size \in Nat, NEW from \in Nat, NEW to \in Nat
    PROVE  Slice(size, from, to) \in Seq(Nat)
<1>1. PICK n \in Int : n = (IF to < size THEN to ELSE size) - from
  OBVIOUS
<1>2. PICK l \in Nat : 1..l = 1..n
  <2>1. CASE n >= 0
    BY <2>1
  <2>2. CASE n < 0
    <3>1. 1..0 = 1..n
      BY <2>2
    <3> QED
      BY <3>1
  <2> QED
    BY <2>1, <2>2
<1>3. Slice(size, from, to) = [k \in 1..l |-> from + k]
  BY <1>1, <1>2 DEF Slice
<1>4. \A k \in 1..l : from + k \in Nat
  OBVIOUS
<1> QED
  BY <1>3, <1>4

\* A slice from the beginning: its length, and what is in it.
LEMMA SliceFromStart ==
    ASSUME NEW size \in Nat, NEW to \in Nat
    PROVE  LET n == IF to < size THEN to ELSE size IN
           Slice(size, 0, to) = [k \in 1..n |-> k]
<1>1. PICK n \in Nat : n = IF to < size THEN to ELSE size
  OBVIOUS
<1>2. n - 0 = n /\ \A k \in 1..n : 0 + k = k
  OBVIOUS
<1> QED
  BY <1>1, <1>2 DEF Slice

\* A slice from the beginning, with the one that begins where it ends, is a longer one.
LEMMA SliceJoins ==
    ASSUME NEW size \in Nat, NEW from \in Nat, NEW to \in Nat, from <= size, from <= to
    PROVE  Slice(size, 0, from) \o Slice(size, from, to) = Slice(size, 0, to)
<1>1. PICK n \in Nat : n = (IF to < size THEN to ELSE size) /\ from <= n
  OBVIOUS
<1>2. Slice(size, 0, from) = [k \in 1..from |-> k]
  BY SliceFromStart
<1>3. Slice(size, 0, to) = [k \in 1..n |-> k]
  BY <1>1, SliceFromStart
<1>4. PICK s \in Seq(Nat) : s = Slice(size, 0, from) /\ Len(s) = from
  BY <1>2, SliceIsSeq
<1>5. PICK t \in Seq(Nat) : t = Slice(size, from, to) /\ t = [k \in 1..(n - from) |-> from + k]
  BY <1>1, SliceIsSeq DEF Slice
<1>6. Len(t) = n - from
  BY <1>1, <1>5
<1>7. Len(s \o t) = n /\ s \o t \in Seq(Nat)
  BY <1>1, <1>4, <1>6
<1>8. ASSUME NEW k \in 1..n PROVE (s \o t)[k] = k
  <2>1. CASE k <= from
    BY <2>1, <1>2, <1>4
  <2>2. CASE k > from
    <3>1. (s \o t)[k] = t[k - from]
      BY <2>2, <1>4, <1>6, <1>1
    <3>2. k - from \in 1..(n - from)
      BY <2>2, <1>1
    <3> QED
      BY <3>1, <3>2, <1>5
  <2>3. k <= from \/ k > from
    OBVIOUS
  <2> QED
    BY <2>1, <2>2, <2>3
<1>9. s \o t = [k \in 1..n |-> k]
  <2>1. PICK u \in Seq(Nat) : u = s \o t /\ Len(u) = n /\ \A k \in 1..n : u[k] = k
    BY <1>7, <1>8
  <2>2. PICK v \in Seq(Nat) : v = [k \in 1..n |-> k] /\ Len(v) = n /\ \A k \in 1..n : v[k] = k
    <3>1. \A k \in 1..n : k \in Nat
      OBVIOUS
    <3>2. PICK v \in Seq(Nat) : v = [k \in 1..n |-> k]
      <4>1. [k \in 1..n |-> k] \in Seq(Nat)
        BY <3>1
      <4> QED
        BY <4>1
    <3>3. Len(v) = n
      BY <3>2
    <3>4. \A k \in 1..n : v[k] = k
      BY <3>2
    <3> QED
      BY <3>2, <3>3, <3>4
  <2>3. u = v
    BY <2>1, <2>2, SeqEqual
  <2> QED
    BY <2>1, <2>2, <2>3
<1> QED
  BY <1>3, <1>4, <1>5, <1>9

\* A slice from the beginning is a beginning of the image.
LEMMA SliceIsPrefix ==
    ASSUME NEW size \in Nat, NEW to \in Nat
    PROVE  IsPrefix(Slice(size, 0, to), [k \in 1..size |-> k])
<1>1. PICK n \in Nat : n = (IF to < size THEN to ELSE size) /\ n <= size
  OBVIOUS
<1>2. PICK s \in Seq(Nat) : s = Slice(size, 0, to) /\ s = [k \in 1..n |-> k]
  BY <1>1, SliceFromStart, SliceIsSeq
<1>3. PICK t \in Seq(Nat) : t = [k \in 1..size |-> k]
  <2>1. \A k \in 1..size : k \in Nat
    OBVIOUS
  <2>2. [k \in 1..size |-> k] \in Seq(Nat)
    BY <2>1
  <2> QED
    BY <2>2
<1>4. Len(s) = n /\ Len(t) = size
  BY <1>2, <1>3
<1>5. SubSeq(s, 1, n) = s
  BY <1>4
<1>6. SubSeq(t, 1, n) = s
  <2>1. SubSeq(t, 1, n) = [k \in 1..n |-> t[k]]
    <3>1. n - 1 + 1 = n /\ \A k \in 1..n : 1 + k - 1 = k
      OBVIOUS
    <3>2. SubSeq(t, 1, n) \in Seq(Nat) /\ Len(SubSeq(t, 1, n)) = n
      BY <1>1, <1>4
    <3>3. \A k \in 1..n : SubSeq(t, 1, n)[k] = t[k]
      BY <1>1, <1>4
    <3>4. SubSeq(t, 1, n) = [k \in 1..n |-> SubSeq(t, 1, n)[k]]
      BY <3>2
    <3> QED
      BY <3>3, <3>4
  <2>2. \A k \in 1..n : t[k] = k
    BY <1>1, <1>3
  <2> QED
    BY <2>1, <2>2, <1>2
<1> QED
  BY <1>1, <1>2, <1>3, <1>4, <1>5, <1>6 DEF IsPrefix

\* As many frames as stand in a row among those left out, so many were left out.
LEMMA RowOfSkipped ==
    ASSUME NEW S, IsFiniteSet(S), NEW a \in Nat, NEW b \in Nat, a <= b,
           \A m \in a..(b - 1) : <<"data", m>> \in S
    PROVE  b - a <= Cardinality(S) /\ Cardinality(S) \in Nat
<1>1. PICK f : f = [m \in a..(b - 1) |-> <<"data", m>>]
  OBVIOUS
<1>2. f \in Injection(a..(b - 1), S)
  <2>1. f \in [a..(b - 1) -> S]
    BY <1>1
  <2>2. \A m, n \in a..(b - 1) : f[m] = f[n] => m = n
    BY <1>1
  <2> QED
    BY <2>1, <2>2 DEF Injection, IsInjective
<1>3. Cardinality(S) \in Nat
  BY FS_CardinalityType
<1>4. IsFiniteSet(a..(b - 1)) /\ Cardinality(a..(b - 1)) = b - a
  <2>1. a \in Int /\ b - 1 \in Int
    OBVIOUS
  <2>2. IsFiniteSet(a..(b - 1)) /\ Cardinality(a..(b - 1)) = IF a > b - 1 THEN 0 ELSE (b - 1) - a + 1
    BY <2>1, FS_Interval
  <2> QED
    BY <2>2
<1>5. Cardinality(a..(b - 1)) <= Cardinality(S)
  BY <1>2, FS_Injection
<1> QED
  BY <1>3, <1>4, <1>5
-----------------------------------------------------------------------------
(* The numbers of the constants, and of the frames of an image. *)

\* The image that is sent has a length.
LEMMA SizeIsNat ==
    ASSUME DownloadTypeOK
    PROVE  Size \in Nat
<1>1. images \in Nat \X Nat /\ image \in {1, 2}
  BY ImagesAssumption DEF DownloadTypeOK
<1> QED
  BY <1>1 DEF Size

\* A header is a frame.
LEMMA HeaderIsFrame ==
    ASSUME NEW n \in {1, 2}, NEW size \in Nat
    PROVE  /\ Header(n, size) \in FrameSet
           /\ Header(n, size).image = n /\ Header(n, size).kind = "head"
           /\ Header(n, size).seq = 0 /\ Header(n, size).size = size
           /\ Header(n, size) # NoFrame
<1>1. <<>> \in Seq(Nat)
  OBVIOUS
<1> QED
  BY <1>1 DEF Header, FrameSet, FrameKinds, NoFrame

\* The products with the length of a frame that the invariant speaks of are numbers, and
\* grow with the number of the frame.
LEMMA FrameBytes ==
    ASSUME NEW m \in Nat, NEW n \in Nat, m <= n
    PROVE  /\ m * MAX_DATA_LEN \in Nat /\ n * MAX_DATA_LEN \in Nat
           /\ m * MAX_DATA_LEN <= n * MAX_DATA_LEN
           /\ (n + 1) * MAX_DATA_LEN = n * MAX_DATA_LEN + MAX_DATA_LEN
  BY LengthAssumption

\* The data of a frame of the image is a sequence of numbers.
LEMMA DataIsSeq ==
    ASSUME Size \in Nat, NEW n \in Nat, n >= 1
    PROVE  DataOf(n) \in Seq(Nat)
<1>1. n - 1 \in Nat /\ n - 1 <= n
  OBVIOUS
<1>2. (n - 1) * MAX_DATA_LEN \in Nat /\ n * MAX_DATA_LEN \in Nat
  BY <1>1, FrameBytes
<1> QED
  BY <1>2, SliceIsSeq DEF DataOf

\* Only SecondImage changes what is sent.
LEMMA SameWritten ==
    ASSUME UNCHANGED <<images, image>>, seq \in Nat, seq' \in Nat, seq <= seq',
           NEW f, Written(f), f.kind = "tail" => (f = frame => f = frame')
    PROVE  Written(f)'
<1>1. UNCHANGED Size /\ UNCHANGED DataOf(f.seq)
  BY DEF Size, DataOf
<1>2. ASSUME f.image = image, f.kind = "data" PROVE f.seq \in 1..seq' /\ f.data = DataOf(f.seq)'
  <2>1. f.seq \in 1..seq /\ f.data = DataOf(f.seq)
    BY <1>2 DEF Written
  <2>2. f.seq \in 1..seq'
    BY <2>1
  <2> QED
    BY <2>1, <2>2, <1>1
<1> QED
  BY <1>1, <1>2 DEF Written

-----------------------------------------------------------------------------
(* The invariant *)

\* It holds when the script starts.
LEMMA DownloadBegins == InitDownload => DownloadInv
<1> SUFFICES ASSUME InitDownload PROVE DownloadInv
  OBVIOUS
<1>1. images \in Lengths /\ images \in Nat \X Nat /\ image = 1 /\ seq = 0
  BY ImagesAssumption DEF InitDownload
<1>2. Size = images[1] /\ Size \in Nat
  BY <1>1 DEF Size
<1>3. frame = Header(1, Size) /\ length = Size
  BY <1>2 DEF InitDownload
<1>4. frame \in FrameSet /\ frame.kind = "head" /\ frame.image = 1 /\ frame.size = Size
  BY <1>2, <1>3, HeaderIsFrame
<1>5. at = "write" /\ wire = NoFrame /\ air = {} /\ input = <<>> /\ skipped = {}
  BY DEF InitDownload
<1>6. rom \in [expect : Nat, stored : Seq(Nat), complete : BOOLEAN]
  <2>1. <<>> \in Seq(Nat)
    OBVIOUS
  <2> QED
    BY <2>1 DEF InitDownload
<1>7. DownloadTypeOK
  <2>1. IsFiniteSet(skipped)
    BY <1>5, FS_EmptySet
  <2>2. input \in Seq(Byte) /\ air \subseteq Answer /\ skipped \subseteq FrameKinds \X Nat
    BY <1>5
  <2> QED
    BY <1>1, <1>2, <1>3, <1>4, <1>5, <1>6, <2>1, <2>2 DEF DownloadTypeOK
<1>8. FrameInv
  BY <1>1, <1>2, <1>3, <1>4, <1>5 DEF FrameInv
<1>9. LineInv
  BY <1>5 DEF LineInv
<1>10. ~HeadTaken
  BY <1>4, <1>5 DEF HeadTaken, Acked
<1> QED
  BY <1>7, <1>8, <1>9, <1>10 DEF DownloadInv, RomInv

\* What a step leaves of the ROM when neither the frame nor what was left out changes, and
\* nothing is said that was not said before.
LEMMA RomStays ==
    ASSUME DownloadInv, UNCHANGED <<images, image, seq, frame, rom, skipped>>,
           at' = "sent" => at = "sent",
           \A f \in FrameSet : Acked(f)' => Acked(f),
           Position /\ WireAhead => WireAhead'
    PROVE  RomInv'
<1> SUFFICES ASSUME HeadTaken', (Cardinality(skipped) < SeqModulus - 1)'
             PROVE  Position' /\ WireAhead' /\ AckedInv'
  BY DEF RomInv
<1>1. frame \in FrameSet
  BY DEF DownloadInv, DownloadTypeOK
<1>2. Acked(frame)' => Acked(frame)
  BY <1>1
<1>3. HeadTaken /\ Cardinality(skipped) < SeqModulus - 1
  BY <1>2 DEF HeadTaken
<1>4. Position /\ WireAhead /\ AckedInv
  BY <1>3 DEF DownloadInv, RomInv
<1>5. UNCHANGED Size
  BY DEF Size
<1>6. Position'
  BY <1>4, <1>5 DEF Position, Slice
<1>7. AckedInv'
  BY <1>4 DEF AckedInv
<1> QED
  BY <1>4, <1>6, <1>7

\* A step of the line, which leaves the script alone.
LEMMA FrameStays ==
    ASSUME DownloadInv, UNCHANGED <<images, image, length, seq, frame>>,
           at' = "sent" => at = "sent"
    PROVE  FrameInv'
  BY DEF DownloadInv, FrameInv, Size, DataOf, IsData, Left, Slice

\* sendframe writes the frame.
LEMMA WriteKeeps ==
    ASSUME DownloadInv, Write
    PROVE  DownloadInv'
<1>1. UNCHANGED <<images, image, length, seq, frame, air, rom, skipped>> /\ wire' = frame
      /\ input' = <<>> /\ at' = "read"
  BY DEF Write, FlushInput
<1>2. DownloadTypeOK /\ FrameInv /\ LineInv
  BY DEF DownloadInv
<1>3. DownloadTypeOK'
  BY <1>1, <1>2 DEF DownloadTypeOK
<1>4. FrameInv'
  BY <1>1, FrameStays
<1>5. Written(frame)
  <2>1. frame.kind = "data" => frame.seq \in 1..seq
    BY <1>2 DEF FrameInv, IsData, DownloadTypeOK
  <2>2. image <= image
    BY <1>2 DEF DownloadTypeOK
  <2> QED
    BY <1>2, <2>1, <2>2 DEF FrameInv, Written
<1>6. \A f : Written(f) => Written(f)'
  BY <1>1, <1>2, SameWritten DEF DownloadTypeOK
<1>7. LineInv'
  BY <1>1, <1>2, <1>5, <1>6 DEF LineInv
<1>8. \A f \in FrameSet : Acked(f)' => Acked(f)
  BY <1>1 DEF Acked
<1>9. Position => WireAhead'
  <2> SUFFICES ASSUME Position PROVE WireAhead'
    OBVIOUS
  <2>1. rom.expect <= frame.seq + 1
    <3>1. rom.expect \in 1..(seq + 1) /\ seq \in Nat
      BY <1>2 DEF Position, DownloadTypeOK
    <3>2. CASE frame.kind = "head"
      <4>1. frame.seq = 0 /\ seq = 0
        BY <3>2, <1>2 DEF FrameInv, Header
      <4> QED
        BY <4>1, <3>1
    <3>3. CASE frame.kind = "data"
      BY <3>3, <3>1, <1>2 DEF FrameInv
    <3>4. CASE frame.kind = "tail"
      BY <3>4, <3>1, <1>2 DEF FrameInv
    <3> QED
      BY <3>2, <3>3, <3>4, <1>2 DEF DownloadTypeOK, FrameSet, FrameKinds
  <2> QED
    BY <2>1, <1>1, <1>2 DEF WireAhead, FrameInv, Position
<1>10. RomInv'
  BY <1>1, <1>8, <1>9, RomStays
<1> QED
  BY <1>3, <1>4, <1>7, <1>10 DEF DownloadInv

\* A read that times out or hears something else.
LEMMA ReadOtherKeeps ==
    ASSUME DownloadInv, ReadOther
    PROVE  DownloadInv'
<1>1. UNCHANGED <<images, image, length, seq, frame, wire, air, rom, skipped>> /\ at' = "write"
  BY DEF ReadOther
<1>2. DownloadTypeOK /\ FrameInv /\ LineInv
  BY DEF DownloadInv
<1>3. DownloadTypeOK'
  <2>1. input' \in Seq(Byte)
    BY <1>2 DEF ReadOther, DownloadTypeOK
  <2> QED
    BY <1>1, <1>2, <2>1 DEF DownloadTypeOK
<1>4. FrameInv'
  BY <1>1, FrameStays
<1>5. \A f : Written(f) => Written(f)'
  BY <1>1, <1>2, SameWritten DEF DownloadTypeOK
<1>6. LineInv'
  BY <1>1, <1>2, <1>5 DEF LineInv
<1>7. \A f \in FrameSet : Acked(f)' => Acked(f)
  BY <1>1 DEF Acked
<1>8. WireAhead => WireAhead'
  BY <1>1 DEF WireAhead
<1>9. RomInv'
  BY <1>1, <1>7, <1>8, RomStays
<1> QED
  BY <1>3, <1>4, <1>6, <1>9 DEF DownloadInv

\* The line loses the frame, or an answer.
LEMMA LineLosesKeeps ==
    ASSUME DownloadInv, LineLoses
    PROVE  DownloadInv'
<1>1. UNCHANGED <<images, image, length, seq, frame, at, input, rom, skipped>>
  BY DEF LineLoses
<1>2. DownloadTypeOK /\ FrameInv /\ LineInv
  BY DEF DownloadInv
<1>3. (wire' = wire \/ wire' = NoFrame) /\ air' \subseteq air
  BY DEF LineLoses
<1>4. DownloadTypeOK'
  BY <1>1, <1>2, <1>3 DEF DownloadTypeOK
<1>5. FrameInv'
  BY <1>1, FrameStays
<1>6. \A f : Written(f) => Written(f)'
  BY <1>1, <1>2, SameWritten DEF DownloadTypeOK
<1>7. LineInv'
  BY <1>2, <1>3, <1>6 DEF LineInv
<1>8. \A f \in FrameSet : Acked(f)' => Acked(f)
  BY <1>1, <1>3 DEF Acked
<1>9. WireAhead => WireAhead'
  BY <1>1, <1>3 DEF WireAhead
<1>10. RomInv'
  BY <1>1, <1>8, <1>9, RomStays
<1> QED
  BY <1>4, <1>5, <1>7, <1>10 DEF DownloadInv

\* An answer arrives in the input buffer, where it counts for the frame it is an answer to.
LEMMA LineDeliversKeeps ==
    ASSUME DownloadInv, LineDelivers
    PROVE  DownloadInv'
<1>1. UNCHANGED <<images, image, length, seq, frame, at, wire, rom, skipped>>
  BY DEF LineDelivers
<1>2. DownloadTypeOK /\ FrameInv /\ LineInv
  BY DEF DownloadInv
<1>3. PICK a \in air : /\ air' = air \ {a}
                       /\ input' = Append(input, [byte |-> a.byte, late |-> at = "read" /\ a.to # frame])
  BY DEF LineDelivers
<1>4. PICK b \in Byte : b = [byte |-> a.byte, late |-> at = "read" /\ a.to # frame]
  <2>1. a.byte \in {"0xaa", "other"}
    BY <1>2, <1>3 DEF DownloadTypeOK, Answer
  <2>2. (at = "read" /\ a.to # frame) \in BOOLEAN
    OBVIOUS
  <2>3. [byte |-> a.byte, late |-> at = "read" /\ a.to # frame] \in Byte
    BY <2>1, <2>2 DEF Byte
  <2> QED
    BY <2>3
<1>5. input' = Append(input, b) /\ input \in Seq(Byte) /\ input' \in Seq(Byte)
  BY <1>2, <1>3, <1>4 DEF DownloadTypeOK
<1>6. DownloadTypeOK'
  BY <1>1, <1>2, <1>3, <1>5 DEF DownloadTypeOK
<1>7. FrameInv'
  BY <1>1, FrameStays
<1>8. \A f : Written(f) => Written(f)'
  BY <1>1, <1>2, SameWritten DEF DownloadTypeOK
<1>9. LineInv'
  BY <1>1, <1>2, <1>3, <1>8 DEF LineInv
<1>10. ASSUME NEW f \in FrameSet, Acked(f)' PROVE Acked(f)
  <2>1. CASE \E c \in air' : c.to = f /\ c.byte = "0xaa"
    BY <2>1, <1>3 DEF Acked
  <2>2. CASE ~\E c \in air' : c.to = f /\ c.byte = "0xaa"
    <3>1. f = frame /\ at = "read" /\ \E k \in DOMAIN input' : input'[k].byte = "0xaa" /\ ~input'[k].late
      BY <2>2, <1>1, <1>10 DEF Acked
    <3>2. PICK k \in DOMAIN input' : input'[k].byte = "0xaa" /\ ~input'[k].late
      BY <3>1
    <3>3. CASE k \in DOMAIN input
      <4>1. input'[k] = input[k]
        BY <3>3, <1>5
      <4> QED
        BY <3>1, <3>2, <3>3, <4>1 DEF Acked
    <3>4. CASE k \notin DOMAIN input
      <4>1. input'[k] = b
        BY <3>4, <3>2, <1>5
      <4>2. b.byte = "0xaa" /\ ~b.late
        BY <4>1, <3>2
      <4>3. b.byte = a.byte
        BY <1>4
      <4>4. b.late = (at = "read" /\ a.to # frame)
        BY <1>4
      <4>5. a.to = frame
        BY <4>2, <4>4, <3>1, Zenon
      <4> QED
        BY <3>1, <4>2, <4>3, <4>5, <1>3 DEF Acked
    <3> QED
      BY <3>3, <3>4
  <2> QED
    BY <2>1, <2>2
<1>11. WireAhead => WireAhead'
  BY <1>1 DEF WireAhead
<1>12. RomInv'
  BY <1>1, <1>10, <1>11, RomStays
<1> QED
  BY <1>6, <1>7, <1>9, <1>12 DEF DownloadInv

\* Nothing that is on the line is for the image that comes next.
LEMMA SecondImageKeeps ==
    ASSUME DownloadInv, SecondImage
    PROVE  DownloadInv'
<1>1. DownloadTypeOK /\ FrameInv /\ LineInv
  BY DEF DownloadInv
<1>2. /\ image = 1 /\ image' = 2 /\ seq' = 0 /\ at' = "write" /\ skipped' = {}
      /\ UNCHANGED <<images, wire, air, input, rom>>
  BY DEF SecondImage
<1>3. Size' = images[2] /\ images[2] \in Nat
  <2>1. images \in Nat \X Nat
    BY <1>1, ImagesAssumption DEF DownloadTypeOK
  <2> QED
    BY <1>2, <2>1 DEF Size
<1>4. frame' = Header(2, Size') /\ length' = Size'
  BY <1>3 DEF SecondImage
<1>5. /\ frame' \in FrameSet /\ frame'.image = 2 /\ frame'.kind = "head"
      /\ frame'.size = Size'
  BY <1>3, <1>4, HeaderIsFrame
<1>6. DownloadTypeOK'
  <2>1. IsFiniteSet(skipped')
    BY <1>2, FS_EmptySet
  <2>2. skipped' \subseteq FrameKinds \X Nat
    BY <1>2
  <2> QED
    BY <1>1, <1>2, <1>3, <1>4, <1>5, <2>1, <2>2 DEF DownloadTypeOK
<1>7. FrameInv'
  BY <1>2, <1>4, <1>5 DEF FrameInv
<1>8. \A f \in FrameSet : Written(f) => f.image <= image' /\ f.image # image'
  <2> SUFFICES ASSUME NEW f \in FrameSet, Written(f) PROVE f.image <= image' /\ f.image # image'
    OBVIOUS
  <2>1. f.image <= 1 /\ f.image \in {1, 2}
    BY <1>2 DEF Written, FrameSet
  <2> QED
    BY <2>1, <1>2
<1>9. \A f \in FrameSet : Written(f) => Written(f)'
  BY <1>8 DEF Written
<1>10. /\ wire # NoFrame => wire \in FrameSet
       /\ \A a \in air : a.to \in FrameSet
  BY <1>1 DEF DownloadTypeOK, Answer
<1>11. LineInv'
  BY <1>1, <1>2, <1>9, <1>10 DEF LineInv
<1>12. ~HeadTaken'
  <2>1. ASSUME NEW a \in air PROVE a.to # frame'
    <3>1. a.to.image # 2
      BY <1>1, <1>2, <1>8, <1>10 DEF LineInv
    <3> QED
      BY <3>1, <1>5
  <2> QED
    BY <2>1, <1>2, <1>5 DEF HeadTaken, Acked
<1> QED
  BY <1>6, <1>7, <1>11, <1>12 DEF DownloadInv, RomInv

-----------------------------------------------------------------------------
(* The script goes on *)

\* What leaves a frame behind: a yes to it, or the giving up that is written down.
GoesOn ==
    /\ Continue /\ UNCHANGED <<wire, air, rom>>
    /\ input' \in Seq(Byte)
    /\ Skip \/ (UNCHANGED skipped /\ Acked(frame))

\* That is what the three ways out of sendframe do.
LEMMA WaysOut ==
    ASSUME DownloadTypeOK, ReadAck \/ ReadRaises \/ Failed
    PROVE  GoesOn
<1>1. CASE ReadAck
  <2>1. at = "read" /\ input \in Seq(Byte) /\ input # <<>> /\ Head(input).byte = "0xaa"
        /\ input' = Tail(input) /\ Continue /\ UNCHANGED <<wire, air, rom>>
    BY <1>1 DEF ReadAck, DownloadTypeOK
  <2>2. input' \in Seq(Byte)
    BY <2>1
  <2>3. 1 \in DOMAIN input /\ Head(input) = input[1]
    BY <2>1
  <2>4. CASE Head(input).late
    BY <2>1, <2>2, <2>4, <1>1 DEF GoesOn, ReadAck
  <2>5. CASE ~Head(input).late
    <3>1. Acked(frame)
      BY <2>1, <2>3, <2>5 DEF Acked
    <3> QED
      BY <2>1, <2>2, <2>5, <3>1, <1>1 DEF GoesOn, ReadAck
  <2> QED
    BY <2>4, <2>5
<1>2. CASE ReadRaises
  BY <1>2 DEF ReadRaises, GoesOn, DownloadTypeOK
<1>3. CASE Failed
  BY <1>3 DEF Failed, GoesOn, DownloadTypeOK
<1> QED
  BY <1>1, <1>2, <1>3

\* What is left of the image is what is left after the last frame; the header leaves it all.
LEMMA LengthIsLeft ==
    ASSUME DownloadTypeOK, FrameInv, frame.kind # "tail"
    PROVE  /\ length = Left(seq) /\ length \in Nat /\ seq \in Nat /\ Size \in Nat
           /\ frame.kind = "head" => seq = 0
<1>1. length \in Nat /\ seq \in Nat /\ Size \in Nat /\ frame.kind \in FrameKinds
  BY SizeIsNat DEF DownloadTypeOK, FrameSet
<1>2. CASE frame.kind = "head"
  <2>1. seq = 0 /\ length = Size /\ 0 * MAX_DATA_LEN = 0
    BY <1>2, LengthAssumption DEF FrameInv
  <2> QED
    BY <1>1, <2>1 DEF Left
<1>3. CASE frame.kind = "data"
  BY <1>1, <1>3 DEF FrameInv
<1> QED
  BY <1>1, <1>2, <1>3 DEF FrameKinds

\* senddata cuts the next frame out of the image where the last one ended.
LEMMA NextDataFrame ==
    ASSUME DownloadTypeOK, FrameInv, NextData
    PROVE  /\ DataFrame(seq + 1, frame.size, MoreData(length)) = DataOf(seq + 1)
           /\ IsData(seq + 1)
           /\ length' = Left(seq + 1)
<1>1. frame.kind # "tail" /\ (frame.kind = "head" \/ (frame.kind = "data" /\ length > 0))
  BY DEF NextData
<1>2. /\ length = Left(seq) /\ length \in Nat /\ seq \in Nat /\ Size \in Nat
      /\ frame.kind = "head" => seq = 0
  BY <1>1, LengthIsLeft
<1>3. PICK b \in Nat : b = seq * MAX_DATA_LEN
  BY <1>2, FrameBytes
<1>4. (seq + 1) * MAX_DATA_LEN = b + MAX_DATA_LEN /\ MAX_DATA_LEN \in Nat
  BY <1>2, <1>3, FrameBytes, LengthAssumption
<1>5. (seq + 1) - 1 = seq
  BY <1>2
<1>6. length = IF b < Size THEN Size - b ELSE 0
  BY <1>2, <1>3 DEF Left
<1>7. IsData(seq + 1)
  <2>1. CASE frame.kind = "head"
    BY <1>2, <2>1 DEF IsData
  <2>2. CASE frame.kind = "data" /\ length > 0
    BY <2>2, <1>2, <1>3, <1>5, <1>6 DEF IsData
  <2> QED
    BY <1>1, <2>1, <2>2
<1>8. seq = 0 => b = 0
  BY <1>3, LengthAssumption
<1>9. CASE MoreData(length)
  <2>1. length > MAX_DATA_LEN /\ b + MAX_DATA_LEN < Size
    BY <1>9, <1>2, <1>4, <1>6 DEF MoreData
  <2>2. length' = Left(seq + 1)
    BY <2>1, <1>9, <1>2, <1>4, <1>6 DEF NextData, Left
  <2> QED
    BY <1>7, <1>9, <2>2, DownloadTypeOK, FrameInv DEF DataFrame, DataOf, FrameInv
<1>10. CASE ~MoreData(length)
  <2>1. length <= MAX_DATA_LEN
    BY <1>10, <1>2, <1>4 DEF MoreData
  <2>2. ~(b + MAX_DATA_LEN < Size)
    BY <2>1, <1>2, <1>4, <1>6
  <2>3. length' = Left(seq + 1)
    BY <2>2, <1>10, <1>4 DEF NextData, Left
  <2>4. frame.size = Size /\ Size <= Size /\ ~(Size < Size)
    BY <1>2, FrameInv DEF FrameInv
  <2>5. Slice(Size, seq * MAX_DATA_LEN, Size) = Slice(Size, seq * MAX_DATA_LEN, (seq + 1) * MAX_DATA_LEN)
    <3>1. (IF Size < Size THEN Size ELSE Size) = (IF (seq + 1) * MAX_DATA_LEN < Size THEN (seq + 1) * MAX_DATA_LEN ELSE Size)
      BY <2>2, <1>4
    <3> QED
      BY <3>1 DEF Slice
  <2>6. DataFrame(seq + 1, frame.size, MoreData(length)) = DataOf(seq + 1)
    BY <2>4, <2>5, <1>10, <1>5 DEF DataFrame, DataOf
  <2> QED
    BY <1>7, <2>3, <2>6
<1> QED
  BY <1>9, <1>10

\* What a step of GoesOn leaves: the frame is the next one, and in the same image.
LEMMA NextFrame ==
    ASSUME DownloadTypeOK, FrameInv, Continue
    PROVE  /\ UNCHANGED <<images, image, Size>>
           /\ frame'.kind # "head" /\ at' # "read"
           /\ seq' \in Nat /\ seq <= seq' /\ frame' \in FrameSet /\ length' \in Nat
           /\ at' \in {"write", "read", "sent"}
           /\ FrameInv'
<1>1. /\ seq \in Nat /\ Size \in Nat /\ length \in Nat /\ frame \in FrameSet
      /\ frame.image = image /\ frame.size = Size
  BY SizeIsNat DEF DownloadTypeOK, FrameInv
<1>2. UNCHANGED <<images, image, Size>>
  BY DEF Continue, NextData, NextTail, ImageSent, Size
<1>3. \A n \in Nat : UNCHANGED DataOf(n) /\ UNCHANGED IsData(n) /\ UNCHANGED Left(n)
  BY <1>2 DEF DataOf, IsData, Left
<1>4. CASE NextData
  <2>1. PICK n \in Nat : n = seq + 1
    BY <1>1
  <2>2. PICK d : d = DataFrame(n, frame.size, MoreData(length))
    OBVIOUS
  <2>3. /\ seq' = n /\ at' = "write"
        /\ frame' = [frame EXCEPT !.kind = "data", !.seq = n, !.data = d]
    BY <1>4, <2>1, <2>2 DEF NextData
  <2>4. d = DataOf(n) /\ IsData(n) /\ length' = Left(n)
    BY <1>4, <2>1, <2>2, NextDataFrame
  <2>5. d \in Seq(Nat)
    BY <1>1, <2>1, <2>4, DataIsSeq
  <2>6. frame' \in FrameSet /\ frame'.kind = "data" /\ frame'.seq = n /\ frame'.data = d
        /\ frame'.image = image /\ frame'.size = Size
    BY <1>1, <2>3, <2>5 DEF FrameSet, FrameKinds
  <2>7. length' \in Nat
    <3>1. n * MAX_DATA_LEN \in Nat
      BY FrameBytes
    <3> QED
      BY <3>1, <1>1, <2>4 DEF Left
  <2>8. FrameInv'
    BY <1>2, <1>3, <2>3, <2>4, <2>6 DEF FrameInv
  <2> QED
    BY <1>1, <1>2, <2>1, <2>3, <2>6, <2>7, <2>8
<1>5. CASE NextTail
  <2>1. /\ frame.kind = "data" /\ length = 0 /\ at' = "write" /\ UNCHANGED <<length, seq>>
        /\ frame' = [frame EXCEPT !.kind = "tail", !.seq = seq + 1, !.data = <<>>]
    BY <1>5 DEF NextTail
  <2>2. frame' \in FrameSet /\ frame'.kind = "tail" /\ frame'.seq = seq + 1
        /\ frame'.image = image /\ frame'.size = Size
    <3>1. seq + 1 \in Nat /\ <<>> \in Seq(Nat)
      BY <1>1
    <3> QED
      BY <3>1, <1>1, <2>1 DEF FrameSet, FrameKinds
  <2>3. IsData(seq) /\ Left(seq) = 0
    BY <2>1 DEF FrameInv
  <2>4. FrameInv'
    BY <1>1, <1>2, <1>3, <2>1, <2>2, <2>3 DEF FrameInv
  <2> QED
    BY <1>1, <1>2, <2>1, <2>2, <2>4
<1>6. CASE ImageSent
  <2>1. frame.kind = "tail" /\ at' = "sent" /\ UNCHANGED <<length, seq, frame>>
    BY <1>6 DEF ImageSent
  <2>2. FrameInv'
    BY <1>1, <1>2, <1>3, <2>1 DEF FrameInv
  <2> QED
    BY <1>1, <1>2, <2>1, <2>2
<1> QED
  BY <1>4, <1>5, <1>6 DEF Continue

\* The ROM stands where it stood, and a frame that has been left behind without a yes that
\* was its own is written down.
LEMMA GoesOnKeeps ==
    ASSUME DownloadInv, GoesOn
    PROVE  DownloadInv'
<1>1. DownloadTypeOK /\ FrameInv /\ LineInv /\ RomInv
  BY DEF DownloadInv
<1>2. /\ Continue /\ UNCHANGED <<wire, air, rom>> /\ input' \in Seq(Byte)
      /\ Skip \/ (UNCHANGED skipped /\ Acked(frame))
  BY DEF GoesOn
<1>3. /\ UNCHANGED <<images, image, Size>>
      /\ frame'.kind # "head" /\ at' # "read"
      /\ seq' \in Nat /\ seq <= seq' /\ frame' \in FrameSet /\ length' \in Nat
      /\ at' \in {"write", "read", "sent"}
      /\ FrameInv'
  BY <1>1, <1>2, NextFrame
<1>4. seq \in Nat /\ frame \in FrameSet /\ frame.kind \in FrameKinds /\ frame.seq \in Nat
      /\ IsFiniteSet(skipped) /\ skipped \subseteq FrameKinds \X Nat
  BY <1>1 DEF DownloadTypeOK, FrameSet
<1>5. /\ skipped \subseteq skipped' /\ IsFiniteSet(skipped') /\ skipped' \subseteq FrameKinds \X Nat
      /\ <<frame.kind, frame.seq>> \in skipped' \/ Acked(frame)
  <2>1. CASE Skip
    <3>1. skipped' = skipped \cup {<<frame.kind, frame.seq>>}
      BY <2>1 DEF Skip
    <3>2. IsFiniteSet(skipped')
      BY <1>4, <3>1, FS_AddElement
    <3>3. <<frame.kind, frame.seq>> \in FrameKinds \X Nat
      BY <1>4
    <3> QED
      BY <3>1, <3>2, <3>3, <1>4
  <2>2. CASE UNCHANGED skipped /\ Acked(frame)
    BY <1>4, <2>2
  <2> QED
    BY <1>2, <2>1, <2>2
<1>6. DownloadTypeOK'
  BY <1>1, <1>2, <1>3, <1>5 DEF DownloadTypeOK
<1>7. \A f : Written(f) => Written(f)'
  <2>1. ASSUME NEW f, Written(f) PROVE f.kind = "tail" => (f = frame => f = frame')
    <3>1. frame.kind = "tail" => UNCHANGED frame
      BY <1>2 DEF Continue, NextData, NextTail, ImageSent
    <3> QED
      BY <3>1
  <2>2. UNCHANGED <<images, image>>
    BY <1>3
  <2> QED
    BY <1>3, <1>4, <2>1, <2>2, SameWritten
<1>8. LineInv'
  BY <1>1, <1>2, <1>7 DEF LineInv
<1>9. ASSUME HeadTaken', (Cardinality(skipped) < SeqModulus - 1)'
      PROVE  Position' /\ WireAhead' /\ AckedInv'
  <2>1. <<"head", 0>> \notin skipped'
    BY <1>9, <1>3 DEF HeadTaken
  <2>2. HeadTaken
    <3>1. CASE frame.kind = "head"
      <4>1. frame.seq = 0
        BY <3>1, <1>1 DEF FrameInv, Header
      <4> QED
        BY <3>1, <4>1, <2>1, <1>5 DEF HeadTaken
    <3>2. CASE frame.kind # "head"
      BY <3>2, <2>1, <1>5 DEF HeadTaken
    <3> QED
      BY <3>1, <3>2
  <2>3. Cardinality(skipped) < SeqModulus - 1
    <3>1. Cardinality(skipped) <= Cardinality(skipped')
      BY <1>5, FS_Subset
    <3>2. Cardinality(skipped) \in Nat /\ Cardinality(skipped') \in Nat
      BY <1>4, <1>5, FS_CardinalityType
    <3> QED
      BY <3>1, <3>2, <1>9, LengthAssumption
  <2>4. Position /\ WireAhead /\ AckedInv
    BY <1>1, <2>2, <2>3 DEF RomInv
  <2>5. rom.expect \in Nat /\ rom.expect \in 1..(seq + 1)
    BY <2>4, <1>1, <1>4 DEF Position, DownloadTypeOK
  <2>6. frame.kind = "data" /\ Acked(frame) => frame.seq < rom.expect
    BY <2>4, <1>1, <1>4 DEF AckedInv, FrameInv
  <2>7. Position'
    <3>1. rom'.expect \in 1..(seq' + 1)
      BY <2>5, <1>2, <1>3, <1>4
    <3>2. rom'.stored = Slice(Size', 0, (rom'.expect - 1) * MAX_DATA_LEN)
      BY <2>4, <1>2, <1>3 DEF Position
    <3>3. ASSUME NEW m \in rom.expect..(frame'.seq - 1) PROVE <<"data", m>> \in skipped'
      <4>1. CASE m \in rom.expect..(frame.seq - 1)
        BY <4>1, <2>4, <1>5 DEF Position
      <4>2. CASE m \notin rom.expect..(frame.seq - 1)
        <5>1. frame.kind # "tail"
          <6>1. frame.kind = "tail" => UNCHANGED frame
            BY <1>2 DEF Continue, NextData, NextTail, ImageSent
          <6> QED
            BY <4>2, <6>1, <3>3
        <5>2. frame'.seq = seq + 1
          BY <5>1, <1>2, <1>4 DEF Continue, NextData, NextTail, ImageSent, FrameSet
        <5>3. frame.seq = seq
          BY <5>1, <1>1, <1>4 DEF FrameInv, Header, FrameKinds
        <5>4. m = seq
          BY <5>2, <5>3, <4>2, <3>3, <2>5, <1>4
        <5>5. seq >= 1
          BY <5>4, <2>5
        <5>6. frame.kind = "data"
          <6>1. frame.kind = "head" => seq = 0
            BY <1>1 DEF FrameInv
          <6> QED
            BY <6>1, <5>1, <5>5, <1>4 DEF FrameKinds
        <5>7. ~(frame.seq < rom.expect)
          BY <5>3, <5>4, <2>5, <1>4
        <5> QED
          BY <5>3, <5>4, <5>6, <5>7, <2>6, <1>5
      <4> QED
        BY <4>1, <4>2
    <3>4. rom.complete => frame'.kind = "tail"
      <4>1. rom.complete => frame.kind = "tail"
        BY <2>4 DEF Position
      <4>2. frame.kind = "tail" => UNCHANGED frame
        BY <1>2 DEF Continue, NextData, NextTail, ImageSent
      <4> QED
        BY <4>1, <4>2
    <3>5. UNCHANGED rom
      BY <1>2
    <3> QED
      BY <3>1, <3>2, <3>3, <3>4, <3>5 DEF Position
  <2>8. WireAhead'
    BY <2>4, <1>2, <1>3 DEF WireAhead
  <2>9. AckedInv'
    <3>1. ASSUME NEW f \in FrameSet, Acked(f)' PROVE Acked(f)
      BY <3>1, <1>2, <1>3 DEF Acked
    <3>2. ASSUME at' = "sent", <<"tail", frame'.seq>> \notin skipped' PROVE rom.complete
      <4>1. frame.kind = "tail" /\ UNCHANGED frame
        BY <3>2, <1>2 DEF Continue, NextData, NextTail, ImageSent
      <4>2. Acked(frame)
        BY <4>1, <3>2, <1>5
      <4> QED
        BY <4>1, <4>2, <2>4, <1>1, <1>4 DEF AckedInv, FrameInv
    <3>3. UNCHANGED <<rom, image>>
      BY <1>2, <1>3
    <3>4. ASSUME NEW f \in FrameSet, f.image = image', Acked(f)'
          PROVE  /\ f.kind = "data" => f.seq < rom'.expect
                 /\ f.kind = "tail" => rom'.complete
      BY <3>1, <3>3, <3>4, <2>4 DEF AckedInv
    <3> QED
      BY <3>2, <3>3, <3>4 DEF AckedInv
  <2> QED
    BY <2>7, <2>8, <2>9
<1>10. RomInv'
  BY <1>9 DEF RomInv
<1> QED
  BY <1>3, <1>6, <1>8, <1>10 DEF DownloadInv

-----------------------------------------------------------------------------
(* The ROM *)

\* Behind where the ROM stands, no more frames were begun than were left out.
LEMMA FewBehind ==
    ASSUME DownloadInv, HeadTaken, Cardinality(skipped) < SeqModulus - 1,
           NEW m \in Nat, m \in 1..seq, rom.expect <= m
    PROVE  m - rom.expect <= Cardinality(skipped) /\ Cardinality(skipped) \in Nat
<1>1. DownloadTypeOK /\ FrameInv /\ Position
  BY DEF DownloadInv, RomInv
<1>2. seq \in Nat /\ rom.expect \in Nat /\ frame.kind \in FrameKinds /\ IsFiniteSet(skipped)
  BY <1>1 DEF DownloadTypeOK, FrameSet
<1>3. frame.seq \in Nat /\ m <= frame.seq
  BY <1>1, <1>2 DEF FrameInv, FrameKinds, Header
<1>4. ASSUME NEW k \in rom.expect..(m - 1) PROVE <<"data", k>> \in skipped
  <2>1. k \in rom.expect..(frame.seq - 1)
    BY <1>2, <1>3
  <2> QED
    BY <2>1, <1>1 DEF Position
<1> QED
  BY <1>2, <1>4, RowOfSkipped

\* A data frame that the ROM takes for the next one is that one, and one that it takes for
\* a repetition is the last.
LEMMA NumbersMean ==
    ASSUME DownloadInv, HeadTaken, Cardinality(skipped) < SeqModulus - 1,
           wire # NoFrame, wire.kind = "data"
    PROVE  /\ wire.image = image
           /\ wire.seq \in 1..seq
           /\ wire.data = DataOf(wire.seq)
           /\ wire.seq % SeqModulus = rom.expect % SeqModulus => wire.seq = rom.expect
           /\ wire.seq % SeqModulus = (rom.expect - 1) % SeqModulus => wire.seq = rom.expect - 1
<1>1. DownloadTypeOK /\ LineInv /\ Position /\ WireAhead
  BY DEF DownloadInv, RomInv
<1>2. wire.image = image /\ wire.seq \in 1..seq /\ wire.data = DataOf(wire.seq)
  BY <1>1 DEF LineInv, WireAhead, Written
<1>3. PICK m \in Nat : m = wire.seq /\ m \in 1..seq
  BY <1>1, <1>2 DEF DownloadTypeOK
<1>4. PICK n \in Nat : n = rom.expect /\ n <= m + 1
  BY <1>1, <1>3 DEF DownloadTypeOK, WireAhead
<1>5. SeqModulus \in Nat \ {0} /\ SeqModulus >= 2
  BY LengthAssumption
<1>6. m - n < SeqModulus - 1
  <2>1. CASE n <= m
    <3>1. m - n <= Cardinality(skipped) /\ Cardinality(skipped) \in Nat
      BY <2>1, <1>3, <1>4, FewBehind
    <3> QED
      BY <3>1, <1>5
  <2>2. CASE ~(n <= m)
    BY <2>2, <1>5
  <2> QED
    BY <2>1, <2>2
<1>7. m % SeqModulus = n % SeqModulus => m = n
  <2>1. m - n < SeqModulus /\ n - m < SeqModulus /\ m \in Int /\ n \in Int
    BY <1>4, <1>5, <1>6
  <2> SUFFICES ASSUME m % SeqModulus = n % SeqModulus PROVE m = n
    OBVIOUS
  <2> QED
    BY <2>1, <1>5, SameRemainder, Zenon
<1>8. m % SeqModulus = (n - 1) % SeqModulus => m = n - 1
  <2>1. PICK l \in Int : l = n - 1
    OBVIOUS
  <2>2. m - l < SeqModulus /\ l - m < SeqModulus /\ m \in Int
    BY <1>4, <1>5, <1>6, <2>1
  <2> SUFFICES ASSUME m % SeqModulus = l % SeqModulus PROVE m = l
    BY <2>1
  <2> QED
    BY <2>1, <2>2, <1>5, SameRemainder, Zenon
<1> QED
  BY <1>2, <1>3, <1>4, <1>7, <1>8

\* What the ROM has been told that it had: nothing but what it has just said.
LEMMA RomSays ==
    ASSUME NEW byte, Answers(wire, byte), UNCHANGED <<frame, at, input>>,
           NEW f, Acked(f)'
    PROVE  Acked(f) \/ (f = wire /\ byte = "0xaa")
<1>1. air' = air \cup {[to |-> wire, byte |-> byte]}
  BY DEF Answers
<1>2. CASE \E a \in air' : a.to = f /\ a.byte = "0xaa"
  BY <1>1, <1>2 DEF Acked
<1>3. CASE ~\E a \in air' : a.to = f /\ a.byte = "0xaa"
  BY <1>3 DEF Acked
<1> QED
  BY <1>2, <1>3

\* The ROM that hears the head of an image stands at its first frame; for an image whose
\* head it has had, it stood there.
LEMMA HeadKeeps ==
    ASSUME DownloadInv, wire # NoFrame, wire.kind = "head", Answers(wire, "0xaa"), wire' = NoFrame,
           rom' = [expect |-> 1, stored |-> <<>>, complete |-> FALSE],
           UNCHANGED <<images, image, length, seq, frame, at, input, skipped>>
    PROVE  RomInv'
<1> SUFFICES ASSUME HeadTaken', (Cardinality(skipped) < SeqModulus - 1)'
             PROVE  Position' /\ WireAhead' /\ AckedInv'
  BY DEF RomInv
<1>1. DownloadTypeOK /\ FrameInv /\ LineInv /\ RomInv /\ seq \in Nat /\ Size \in Nat
  BY SizeIsNat DEF DownloadInv, DownloadTypeOK
<1>2. rom'.expect = 1 /\ rom'.stored = <<>> /\ rom'.complete = FALSE /\ UNCHANGED Size
  BY DEF Size
<1>3. Slice(Size, 0, (1 - 1) * MAX_DATA_LEN) = <<>>
  <2>1. (1 - 1) * MAX_DATA_LEN = 0
    BY LengthAssumption
  <2>2. PICK s \in Seq(Nat) : s = Slice(Size, 0, 0) /\ s = [k \in 1..0 |-> k]
    <3>1. 0 = IF 0 < Size THEN 0 ELSE Size
      BY <1>1
    <3> QED
      BY <3>1, <1>1, SliceFromStart, SliceIsSeq
  <2>3. Len(s) = 0
    BY <2>2
  <2> QED
    BY <2>1, <2>2, <2>3, EmptySeq
<1>4. WireAhead'
  BY DEF WireAhead
<1>5. CASE HeadTaken
  <2>1. Position /\ WireAhead /\ AckedInv
    BY <1>1, <1>5 DEF RomInv
  <2>2. wire.image = image /\ wire.seq = 0 /\ rom.complete # TRUE
    <3>1. wire.image = image /\ rom.complete # TRUE
      BY <2>1 DEF WireAhead
    <3>2. wire = Header(image, Size)
      BY <1>1, <3>1 DEF LineInv, Written
    <3>3. wire.seq = 0
      BY <3>2 DEF Header
    <3> QED
      BY <3>1, <3>3
  <2>3. rom.expect = 1
    BY <1>1, <2>1, <2>2 DEF WireAhead, Position, DownloadTypeOK
  <2>4. Position'
    BY <1>1, <1>2, <1>3, <2>1, <2>3 DEF Position
  <2>5. ASSUME NEW f \in FrameSet, f.image = image, Acked(f)'
        PROVE  (f.kind = "data" => f.seq < 1) /\ f.kind # "tail"
    <3>1. CASE f = wire
      BY <3>1
    <3>2. CASE f # wire
      BY <2>1, <2>2, <2>3, <2>5, <3>2, RomSays DEF AckedInv
    <3> QED
      BY <3>1, <3>2
  <2>6. ~(at' = "sent" /\ <<"tail", frame'.seq>> \notin skipped')
    BY <2>1, <2>2 DEF AckedInv
  <2>7. AckedInv'
    BY <1>2, <2>5, <2>6 DEF AckedInv
  <2> QED
    BY <1>4, <2>4, <2>7
<1>6. CASE ~HeadTaken
  <2>1. frame.kind = "head" /\ Acked(frame)' /\ ~Acked(frame)
    BY <1>6 DEF HeadTaken
  <2>2. frame = wire
    BY <2>1, RomSays
  <2>3. seq = 0 /\ frame.seq = 0
    BY <2>1, <1>1 DEF FrameInv, Header
  <2>4. Position'
    BY <1>1, <1>2, <1>3, <2>3 DEF Position
  <2>5. ASSUME NEW f \in FrameSet, f.image = image, Acked(f)' PROVE f.kind = "head"
    <3>1. CASE f = wire
      BY <3>1
    <3>2. CASE f # wire
      <4>1. \E a \in air : a.to = f
        BY <2>2, <2>5, <3>2, RomSays DEF Acked
      <4>2. Written(f)
        BY <4>1, <1>1 DEF LineInv
      <4> QED
        BY <4>2, <2>1, <2>3, <2>5 DEF Written, FrameSet, FrameKinds
    <3> QED
      BY <3>1, <3>2
  <2>6. at' # "sent"
    BY <2>1, <1>1 DEF FrameInv
  <2>7. AckedInv'
    BY <1>2, <2>5, <2>6 DEF AckedInv
  <2> QED
    BY <1>4, <2>4, <2>7
<1> QED
  BY <1>5, <1>6

\* A frame that comes when the ROM has had the head leaves it had.
LEMMA HeadWasTaken ==
    ASSUME NEW byte, Answers(wire, byte), wire.kind # "head", HeadTaken',
           UNCHANGED <<frame, at, input, skipped>>
    PROVE  HeadTaken
<1>1. CASE frame.kind = "head"
  <2>1. Acked(frame)'
    BY <1>1 DEF HeadTaken
  <2>2. Acked(frame)
    BY <2>1, <1>1, RomSays
  <2> QED
    BY <2>2, <1>1 DEF HeadTaken
<1>2. CASE frame.kind # "head"
  BY <1>2 DEF HeadTaken
<1> QED
  BY <1>1, <1>2

\* The frame the ROM waits for is stored where the one before it ended.
LEMMA DataKeeps ==
    ASSUME DownloadInv, wire # NoFrame, wire.kind = "data",
           wire.seq % SeqModulus = rom.expect % SeqModulus,
           rom' = [rom EXCEPT !.expect = @ + 1, !.stored = @ \o wire.data],
           Answers(wire, "0xaa"), wire' = NoFrame,
           UNCHANGED <<images, image, length, seq, frame, at, input, skipped>>
    PROVE  RomInv'
<1> SUFFICES ASSUME HeadTaken', (Cardinality(skipped) < SeqModulus - 1)'
             PROVE  Position' /\ WireAhead' /\ AckedInv'
  BY DEF RomInv
<1>1. DownloadTypeOK /\ FrameInv /\ LineInv /\ RomInv /\ seq \in Nat /\ Size \in Nat
  BY SizeIsNat DEF DownloadInv, DownloadTypeOK
<1>2. HeadTaken /\ Cardinality(skipped) < SeqModulus - 1
  BY HeadWasTaken
<1>3. Position /\ AckedInv
  BY <1>1, <1>2 DEF RomInv
<1>4. PICK e \in Nat : e = rom.expect /\ e = wire.seq /\ e \in 1..seq
  BY <1>1, <1>2, NumbersMean DEF DownloadTypeOK
<1>5. wire.data = DataOf(e)
  BY <1>2, <1>4, NumbersMean
<1>6. rom'.expect = e + 1 /\ rom'.stored = rom.stored \o DataOf(e) /\ rom'.complete = rom.complete
  BY <1>1, <1>4, <1>5 DEF DownloadTypeOK
<1>7. rom'.stored = Slice(Size, 0, e * MAX_DATA_LEN)
  <2>1. PICK b \in Nat : b = (e - 1) * MAX_DATA_LEN
    <3>1. e - 1 \in Nat
      BY <1>4
    <3> QED
      BY <3>1, FrameBytes
  <2>2. PICK c \in Nat : c = e * MAX_DATA_LEN /\ b <= c
    <3>1. e - 1 \in Nat /\ e - 1 <= e
      BY <1>4
    <3> QED
      BY <3>1, <2>1, FrameBytes
  <2>3. b <= Size
    <3>1. CASE e = 1
      BY <3>1, <2>1, <1>1, LengthAssumption
    <3>2. CASE e # 1
      <4>1. seq - 1 \in Nat /\ e - 1 \in Nat /\ e - 1 <= seq - 1 /\ seq # 1 /\ seq # 0
        BY <3>2, <1>1, <1>4
      <4>2. IsData(seq)
        BY <1>1, <4>1 DEF FrameInv, DownloadTypeOK, FrameSet, FrameKinds
      <4>3. (seq - 1) * MAX_DATA_LEN < Size
        BY <4>1, <4>2 DEF IsData
      <4>4. b <= (seq - 1) * MAX_DATA_LEN /\ (seq - 1) * MAX_DATA_LEN \in Nat
        BY <4>1, <2>1, FrameBytes
      <4> QED
        BY <4>3, <4>4, <1>1
    <3> QED
      BY <3>1, <3>2
  <2>4. rom.stored = Slice(Size, 0, b) /\ DataOf(e) = Slice(Size, b, c)
    BY <1>3, <1>4, <2>1, <2>2 DEF Position, DataOf
  <2>5. Slice(Size, 0, b) \o Slice(Size, b, c) = Slice(Size, 0, c)
    BY <1>1, <2>2, <2>3, SliceJoins
  <2> QED
    BY <1>6, <2>2, <2>4, <2>5
<1>8. Position'
  <2>1. UNCHANGED Size
    BY DEF Size
  <2>2. rom'.expect \in 1..(seq' + 1) /\ rom'.expect - 1 = e
    BY <1>1, <1>4, <1>6
  <2>3. ASSUME NEW m \in rom'.expect..(frame'.seq - 1) PROVE <<"data", m>> \in skipped'
    <3>1. frame.seq \in Int
      BY <1>1 DEF DownloadTypeOK, FrameSet
    <3>2. m \in rom.expect..(frame.seq - 1)
      BY <1>4, <1>6, <2>3, <3>1
    <3> QED
      BY <3>2, <1>3 DEF Position
  <2> QED
    BY <1>3, <1>6, <1>7, <2>1, <2>2, <2>3 DEF Position
<1>9. WireAhead'
  BY DEF WireAhead
<1>10. AckedInv'
  <2>1. ASSUME NEW f \in FrameSet, f.image = image, Acked(f)'
        PROVE  (f.kind = "data" => f.seq < e + 1) /\ (f.kind = "tail" => rom.complete)
    <3>1. CASE f = wire
      BY <3>1, <1>4
    <3>2. CASE f # wire
      <4>1. Acked(f)
        BY <2>1, <3>2, RomSays
      <4>2. (f.kind = "data" => f.seq < e) /\ (f.kind = "tail" => rom.complete) /\ f.seq \in Nat
        BY <4>1, <2>1, <1>3, <1>4 DEF AckedInv, FrameSet
      <4> QED
        BY <4>2
    <3> QED
      BY <3>1, <3>2
  <2> QED
    BY <1>3, <1>6, <2>1 DEF AckedInv
<1> QED
  BY <1>8, <1>9, <1>10

\* The tail the ROM waits for ends the image.
LEMMA TailKeeps ==
    ASSUME DownloadInv, wire # NoFrame, wire.kind = "tail",
           rom' = [rom EXCEPT !.complete = TRUE],
           Answers(wire, "0xaa"), wire' = NoFrame,
           UNCHANGED <<images, image, length, seq, frame, at, input, skipped>>
    PROVE  RomInv'
<1> SUFFICES ASSUME HeadTaken', (Cardinality(skipped) < SeqModulus - 1)'
             PROVE  Position' /\ WireAhead' /\ AckedInv'
  BY DEF RomInv
<1>1. DownloadTypeOK /\ LineInv /\ RomInv
  BY DEF DownloadInv
<1>2. HeadTaken /\ Cardinality(skipped) < SeqModulus - 1
  BY HeadWasTaken
<1>3. Position /\ AckedInv /\ WireAhead
  BY <1>1, <1>2 DEF RomInv
<1>4. rom'.expect = rom.expect /\ rom'.stored = rom.stored /\ rom'.complete = TRUE
  BY <1>1 DEF DownloadTypeOK
<1>5. frame = wire
  BY <1>1, <1>3 DEF LineInv, WireAhead, Written
<1>6. UNCHANGED Size
  BY DEF Size
<1>7. Position'
  BY <1>3, <1>4, <1>5, <1>6 DEF Position
<1>8. WireAhead'
  BY DEF WireAhead
<1>9. AckedInv'
  <2>1. ASSUME NEW f \in FrameSet, f.image = image, Acked(f)'
        PROVE  f.kind = "data" => f.seq < rom.expect
    <3>1. CASE f = wire
      BY <3>1
    <3>2. CASE f # wire
      BY <2>1, <3>2, <1>3, RomSays DEF AckedInv
    <3> QED
      BY <3>1, <3>2
  <2> QED
    BY <1>4, <2>1 DEF AckedInv
<1> QED
  BY <1>7, <1>8, <1>9

\* A frame that the ROM does not store: it says yes to the last one only.
LEMMA RefusalKeeps ==
    ASSUME DownloadInv, wire # NoFrame, wire.kind # "head", NEW byte, Answers(wire, byte),
           byte = "0xaa" => /\ wire.kind = "data"
                            /\ wire.seq % SeqModulus = (rom.expect - 1) % SeqModulus,
           wire' = NoFrame,
           UNCHANGED <<images, image, length, seq, frame, at, input, rom, skipped>>
    PROVE  RomInv'
<1> SUFFICES ASSUME HeadTaken', (Cardinality(skipped) < SeqModulus - 1)'
             PROVE  Position' /\ WireAhead' /\ AckedInv'
  BY DEF RomInv
<1>1. DownloadTypeOK /\ RomInv
  BY DEF DownloadInv
<1>2. HeadTaken /\ Cardinality(skipped) < SeqModulus - 1
  BY HeadWasTaken
<1>3. Position /\ AckedInv
  BY <1>1, <1>2 DEF RomInv
<1>4. Position'
  BY <1>3 DEF Position, Size, Slice
<1>5. WireAhead'
  BY DEF WireAhead
<1>6. AckedInv'
  <2>1. ASSUME NEW f \in FrameSet, f.image = image, Acked(f)'
        PROVE  (f.kind = "data" => f.seq < rom.expect) /\ (f.kind = "tail" => rom.complete)
    <3>1. CASE Acked(f)
      BY <3>1, <2>1, <1>3 DEF AckedInv
    <3>2. CASE ~Acked(f)
      <4>1. f = wire /\ byte = "0xaa"
        BY <2>1, <3>2, RomSays
      <4>2. wire.seq = rom.expect - 1 /\ wire.kind = "data"
        BY <4>1, <1>2, NumbersMean
      <4>3. rom.expect \in Nat
        BY <1>1 DEF DownloadTypeOK
      <4> QED
        BY <4>1, <4>2, <4>3
    <3> QED
      BY <3>1, <3>2
  <2> QED
    BY <1>3, <2>1 DEF AckedInv
<1> QED
  BY <1>4, <1>5, <1>6

\* Whatever the ROM hears, the invariant holds of what it says.
LEMMA RomReceivesKeeps ==
    ASSUME DownloadInv, RomReceives
    PROVE  DownloadInv'
<1>1. DownloadTypeOK /\ FrameInv /\ LineInv
  BY DEF DownloadInv
<1>2. /\ wire # NoFrame /\ wire' = NoFrame
      /\ UNCHANGED <<images, image, length, seq, frame, at, input, skipped>>
  BY DEF RomReceives
<1>3. wire \in FrameSet
  BY <1>1, <1>2 DEF DownloadTypeOK
<1>4. PICK byte \in {"0xaa", "other"} : Answers(wire, byte)
  BY DEF RomReceives
<1>5. air' = air \cup {[to |-> wire, byte |-> byte]} /\ air' \subseteq Answer
  BY <1>1, <1>3, <1>4 DEF Answers, Answer, DownloadTypeOK
<1>6. rom' \in [expect : Nat, stored : Seq(Nat), complete : BOOLEAN]
  <2>1. CASE rom' = [expect |-> 1, stored |-> <<>>, complete |-> FALSE]
    <3>1. <<>> \in Seq(Nat)
      OBVIOUS
    <3> QED
      BY <2>1, <3>1
  <2>2. CASE rom' = [rom EXCEPT !.expect = @ + 1, !.stored = @ \o wire.data]
    <3>1. rom.stored \o wire.data \in Seq(Nat) /\ rom.expect + 1 \in Nat
      BY <1>1, <1>3 DEF DownloadTypeOK, FrameSet
    <3> QED
      BY <2>2, <3>1, <1>1 DEF DownloadTypeOK
  <2>3. CASE rom' = [rom EXCEPT !.complete = TRUE]
    BY <2>3, <1>1 DEF DownloadTypeOK
  <2>4. CASE UNCHANGED rom
    BY <2>4, <1>1 DEF DownloadTypeOK
  <2> QED
    BY <2>1, <2>2, <2>3, <2>4 DEF RomReceives
<1>7. DownloadTypeOK'
  BY <1>1, <1>2, <1>5, <1>6 DEF DownloadTypeOK
<1>8. FrameInv'
  BY <1>2, FrameStays
<1>9. \A f : Written(f) => Written(f)'
  BY <1>1, <1>2, SameWritten DEF DownloadTypeOK
<1>10. LineInv'
  BY <1>1, <1>2, <1>5, <1>9 DEF LineInv
<1>11. RomInv'
  <2>1. CASE wire.kind = "head" /\ rom' = [expect |-> 1, stored |-> <<>>, complete |-> FALSE]
             /\ Answers(wire, "0xaa")
    BY <1>2, <2>1, HeadKeeps
  <2>2. CASE /\ wire.kind = "data" /\ wire.seq % SeqModulus = rom.expect % SeqModulus
             /\ rom' = [rom EXCEPT !.expect = @ + 1, !.stored = @ \o wire.data]
             /\ Answers(wire, "0xaa")
    BY <1>2, <2>2, DataKeeps
  <2>3. CASE /\ wire.kind = "tail" /\ rom' = [rom EXCEPT !.complete = TRUE]
             /\ Answers(wire, "0xaa")
    BY <1>2, <2>3, TailKeeps
  <2>4. CASE /\ wire.kind = "data" /\ wire.seq % SeqModulus = (rom.expect - 1) % SeqModulus
             /\ UNCHANGED rom
             /\ Answers(wire, "0xaa")
    BY <1>2, <2>4, RefusalKeeps
  <2>5. CASE wire.kind # "head" /\ UNCHANGED rom /\ Answers(wire, "other")
    BY <1>2, <2>5, RefusalKeeps
  <2> QED
    BY <2>1, <2>2, <2>3, <2>4, <2>5 DEF RomReceives
<1> QED
  BY <1>7, <1>8, <1>10, <1>11 DEF DownloadInv

-----------------------------------------------------------------------------
(* The theorem *)

\* The invariant holds of every state of the download.
THEOREM DownloadStands == DownloadSpec => []DownloadInv
<1>1. InitDownload => DownloadInv
  BY DownloadBegins
<1>2. DownloadInv /\ [NextDownload]_downloadVars => DownloadInv'
  <2> SUFFICES ASSUME DownloadInv, [NextDownload]_downloadVars PROVE DownloadInv'
    OBVIOUS
  <2>1. CASE Write
    BY <2>1, WriteKeeps
  <2>2. CASE ReadAck \/ ReadRaises \/ Failed
    BY <2>2, WaysOut, GoesOnKeeps DEF DownloadInv
  <2>3. CASE ReadOther
    BY <2>3, ReadOtherKeeps
  <2>4. CASE SecondImage
    BY <2>4, SecondImageKeeps
  <2>5. CASE RomReceives
    BY <2>5, RomReceivesKeeps
  <2>6. CASE LineLoses
    BY <2>6, LineLosesKeeps
  <2>7. CASE LineDelivers
    BY <2>7, LineDeliversKeeps
  <2>8. CASE UNCHANGED downloadVars
    <3>1. UNCHANGED <<images, image, length, seq, frame, i, at, wire, air, input, rom, skipped>>
      BY <2>8 DEF downloadVars
    <3>2. DownloadTypeOK' /\ FrameInv' /\ LineInv' /\ RomInv'
      BY <3>1 DEF DownloadInv, DownloadTypeOK, FrameInv, LineInv, RomInv, Size, DataOf, IsData,
                  Left, Slice, Written, HeadTaken, Acked, Position, WireAhead, AckedInv
    <3> QED
      BY <3>2 DEF DownloadInv
  <2> QED
    BY <2>1, <2>2, <2>3, <2>4, <2>5, <2>6, <2>7, <2>8 DEF NextDownload
<1> QED
  BY <1>1, <1>2, PTL DEF DownloadSpec

\* As long as fewer frames were left without an answer of their own than the number of a
\* frame can tell apart, what the ROM has stored is a beginning of the image; and if none
\* was, it has all of the image, and its end, when the script says that it was sent.
THEOREM ImageDoesArrive == DownloadSpec => []ImageArrives
<1>1. DownloadInv => ImageArrives
  <2> SUFFICES ASSUME DownloadInv, <<"head", 0>> \notin skipped
               PROVE  /\ frame.kind # "head" /\ Cardinality(skipped) < SeqModulus - 1 =>
                             IsPrefix(rom.stored, [k \in 1..Size |-> k])
                      /\ at = "sent" /\ skipped = {} =>
                             rom.stored = [k \in 1..Size |-> k] /\ rom.complete
    BY DEF ImageArrives, Size
  <2>1. DownloadTypeOK /\ FrameInv /\ RomInv /\ Size \in Nat /\ seq \in Nat /\ rom.expect \in Nat
    BY SizeIsNat DEF DownloadInv, DownloadTypeOK
  <2>2. ASSUME frame.kind # "head", Cardinality(skipped) < SeqModulus - 1
        PROVE  Position /\ AckedInv
    BY <2>1, <2>2 DEF HeadTaken, RomInv
  <2>3. ASSUME frame.kind # "head", Cardinality(skipped) < SeqModulus - 1
        PROVE  IsPrefix(rom.stored, [k \in 1..Size |-> k])
    <3>1. Position
      BY <2>2, <2>3
    <3>2. PICK n \in Nat : n = rom.expect - 1
      BY <3>1, <2>1 DEF Position
    <3>3. n * MAX_DATA_LEN \in Nat
      BY FrameBytes
    <3> QED
      BY <3>1, <3>2, <3>3, <2>1, SliceIsPrefix DEF Position
  <2>4. ASSUME at = "sent", skipped = {}
        PROVE  rom.stored = [k \in 1..Size |-> k] /\ rom.complete
    <3>1. frame.kind = "tail" /\ frame.seq = seq + 1 /\ Left(seq) = 0
      BY <2>1, <2>4 DEF FrameInv
    <3>2. Cardinality(skipped) = 0 /\ Cardinality(skipped) < SeqModulus - 1
      BY <2>4, FS_EmptySet, LengthAssumption
    <3>3. Position /\ AckedInv
      BY <2>2, <3>1, <3>2
    <3>4. rom.expect = seq + 1
      <4> SUFFICES ASSUME rom.expect # seq + 1 PROVE FALSE
        OBVIOUS
      <4>1. rom.expect \in rom.expect..(frame.seq - 1)
        BY <3>1, <3>3, <2>1 DEF Position
      <4> QED
        BY <4>1, <3>3, <2>4 DEF Position
    <3>5. PICK b \in Nat : b = seq * MAX_DATA_LEN
      BY <2>1, FrameBytes
    <3>6. ~(b < Size)
      BY <3>1, <3>5, <2>1 DEF Left
    <3>7. rom.stored = Slice(Size, 0, b)
      BY <3>3, <3>4, <3>5, <2>1 DEF Position
    <3>8. Slice(Size, 0, b) = [k \in 1..Size |-> k]
      BY <3>6, <2>1, SliceFromStart
    <3>9. rom.complete
      BY <3>3, <2>4 DEF AckedInv
    <3> QED
      BY <3>7, <3>8, <3>9
  <2> QED
    BY <2>3, <2>4
<1> QED
  BY <1>1, DownloadStands, PTL
=============================================================================
