----------------------------- MODULE FlashDriver -----------------------------
(***************************************************************************)
(* The external flash's driver (Stm32ExtMemFlash.cpp), as the steps it     *)
(* gives the controller, the core and the chip.  The application runs from *)
(* this very flash, memory-mapped and cached, so that while interrupts are *)
(* on it must be mapped, the chip not busy and the cache not stale.  The   *)
(* driver drops the data cache without writing it back, and RAM is written *)
(* back late: what only the cache has of it is lost.                       *)
(* Scaled down: sectors of 8 bytes for 4096, pages of 4 for 256, words of  *)
(* 6 bits for 32.  An offset of the code is an addr here.  A byte is the   *)
(* set of its one bits; two stand for eight.                               *)
(***************************************************************************)
EXTENDS Core, Naturals, Sequences

get_sector_size == 8
get_page_size == 4
get_total_size == 24
WordSize == 64

AllOnes == {0, 1}
Addresses == 0 .. get_total_size - 1
-----------------------------------------------------------------------------
(* The node: the chip's cells, write-enable latch and busy state; the      *)
(* controller, mapped or not; interrupts; the flash addresses whose cached *)
(* bytes are stale.  Of the memory that the data cache stands before, byte *)
(* i of what write is given is line i, and line 0 is everything else there *)
(* is in RAM, the tasks' stacks among it: held are the lines of which the  *)
(* cache has more than the memory behind it, lost those that the cache has *)
(* had no longer.  A stopped node has faulted.                             *)

\* What write's data points at is a source: the bytes as given, the old ones
\* that memory has in their place, and whether that memory is the flash itself.
Byte(source, node, i) == IF i \in node.lost THEN source.old[i] ELSE source.given[i]

\* A cell is erased with its sector.
ErasedWith(at) == {a \in Addresses : a \div get_sector_size = at \div get_sector_size}

\* The cell that byte i of a page program from at goes to: it stays in the page.
ProgramCell(at, i) == (at - (at % get_page_size)) + ((at + i - 1) % get_page_size)

\* A command that the chip must be ready for: not busy, with the latch set, and
\* the controller out of memory-mapped mode.  It is busy with it for a while.
Commanded(node, cells) ==
  IF node.wel /\ ~node.mapped /\ ~node.busy
  THEN [node EXCEPT !.cells = cells, !.wel = FALSE, !.busy = TRUE,
                    !.stale = @ \cup {a \in Addresses : cells[a] # node.cells[a]}]
  ELSE node

ErasedCells(cells, at) == [a \in Addresses |-> IF a \in ErasedWith(at) THEN AllOnes ELSE cells[a]]

\* Programming only clears bits.
ProgrammedCells(cells, at, data) ==
  [a \in Addresses |-> cells[a] \cap {b \in AllOnes : \A i \in DOMAIN data :
                                         ProgramCell(at, i) = a => b \in data[i]}]
-----------------------------------------------------------------------------
(* The driver's functions, each the steps it takes.  A page program has    *)
(* the count bytes after the first ones of the data.                       *)

Step(op, at, first, count) == [op |-> op, at |-> at, first |-> first, count |-> count]
Plain(op) == Step(op, 0, 0, 0)

ram_xspi_abort == <<Plain("unmap")>>
ram_xspi_restore_mapped == <<Plain("map")>>
ram_xspi_write_enable == <<Plain("wren")>>
ram_delay_loops == <<Plain("delay")>>
ram_xspi_erase_4k(at) == ram_xspi_write_enable \o <<Step("erase", at, 0, 0)>> \o ram_delay_loops
ram_xspi_program_page(at, first, count) ==
  ram_xspi_write_enable \o <<Step("program", at, first, count)>> \o ram_delay_loops

\* What both loops put around a command.
Bracketed(steps) ==
  <<Plain("disable_irq")>> \o ram_xspi_abort \o steps \o ram_xspi_restore_mapped
    \o <<Plain("invalidate"), Plain("enable_irq")>>

InRange(addr, size) == (addr + size) % WordSize <= get_total_size

EraseSteps(addr, size) ==
  LET end == (addr + size) % WordSize
      from[cur \in Nat] ==
        IF cur >= end THEN <<>>
        ELSE Bracketed(ram_xspi_erase_4k(cur)) \o from[cur + get_sector_size]
  IN  from[addr]

\* Mutant: one page program for all of the data.
WholeChunk(cur, remaining) == remaining

\* What is left of the page, or of the data.
PageChunk(cur, remaining) ==
  LET left == get_page_size - (cur % get_page_size) IN IF left > remaining THEN remaining ELSE left

WriteSteps(addr, size) ==
  LET from[done \in Nat] ==
        IF done >= size THEN <<>>
        ELSE LET chunk == PageChunk(addr + done, size - done)
             IN  Bracketed(ram_xspi_program_page(addr + done, done, chunk)) \o from[done + chunk]
  IN  from[0]

\* erase, write: FALSE and nothing done out of range, else TRUE whatever the
\* chip made of it.  read: from memory, after the cache is dropped.
Accepts(op, addr, size) == InRange(addr, size) /\ (op = "erase" \/ size > 0)
ReadSteps == <<Plain("invalidate")>>
read(node, addr, size) == [i \in 1 .. size |-> node.cells[addr + i - 1]]
-----------------------------------------------------------------------------
\* The data is read from where it is, while the flash is unmapped: what is in
\* the flash and not in the cache cannot be, and the core faults before the
\* chip is deselected, which is what starts a program.  The vectors are in the
\* flash too: the node stops.
Faults(source, node, step) ==
  source.flash /\ ~node.mapped /\ \E i \in 1 .. step.count : step.first + i \in node.lost

\* A step, of which the chip may miss (~heard) its part.
Perform(source, node, step, heard) ==
  CASE step.op = "disable_irq" -> [node EXCEPT !.irq = FALSE]
    [] step.op = "enable_irq"  -> [node EXCEPT !.irq = TRUE]
    [] step.op = "unmap"       -> [node EXCEPT !.mapped = FALSE]
    [] step.op = "map"         -> [node EXCEPT !.mapped = TRUE]
    [] step.op = "delay"       -> node
    [] step.op = "invalidate"  -> [node EXCEPT !.stale = {}, !.lost = @ \cup node.held, !.held = {}]
    [] step.op = "wren"        -> IF node.mapped \/ node.busy \/ ~heard THEN node
                                  ELSE [node EXCEPT !.wel = TRUE]
    [] step.op = "erase"       -> IF heard THEN Commanded(node, ErasedCells(node.cells, step.at)) ELSE node
    [] step.op = "program"     ->
         IF Faults(source, node, step) THEN [node EXCEPT !.stopped = TRUE]
         ELSE IF ~heard THEN node
         ELSE Commanded(node, ProgrammedCells(node.cells, step.at,
                                [i \in 1 .. step.count |-> Byte(source, node, step.first + i)]))

\* A busy chip is done by the next step, unless that is in slow.
Turn(source, node, step, i, missed, slow) ==
  IF node.stopped THEN node
  ELSE Perform(source, [node EXCEPT !.busy = @ /\ i \in slow], step, i \notin missed)

\* The states steps go through; the chip misses those numbered in missed,
\* which the driver, its waits bounded, does not notice, and is still busy in
\* those numbered in slow, which the driver does not ask.
Through(source, node, steps, missed, slow) ==
  LET after[i \in 0 .. Len(steps)] ==
        IF i = 0 THEN node ELSE Turn(source, after[i - 1], steps[i], i, missed, slow)
  IN  after
Final(source, node, steps) == Through(source, node, steps, {}, {})[Len(steps)]

\* That the delay after each command is as long as the chip needs.
DelaysSuffice(steps, slow) == \A i \in DOMAIN steps \cap slow : steps[i].op # "delay"

\* An interrupt handler, whose code is in the flash, can run.
Runnable(node) == node.mapped /\ node.stale = {}
-----------------------------------------------------------------------------
\* A node in use, its bytes not all erased; data, and what memory has instead.
Used == [cells |-> [a \in Addresses |-> CASE a % 3 = 0 -> {} [] a % 3 = 1 -> {0} [] OTHER -> AllOnes],
         wel |-> FALSE, busy |-> FALSE, mapped |-> TRUE, irq |-> TRUE, stale |-> {},
         held |-> {}, lost |-> {}, stopped |-> FALSE]
Blank == [Used EXCEPT !.cells = [a \in Addresses |-> AllOnes]]
Data(size) == [i \in 1 .. size |-> CASE i % 4 = 0 -> {} [] i % 4 = 1 -> {0} [] i % 4 = 2 -> {1}
                                     [] OTHER -> AllOnes]
Former(size) == [i \in 1 .. size |-> AllOnes \ Data(size)[i]]
Given(size, flash) == [given |-> Data(size), old |-> Former(size), flash |-> flash]

\* Lines of which the cache has more than memory.
HeldLines(size) == {{}, 0 .. size, {i \in 0 .. size : i % 3 = 0}}
\* Ranges whose end does not wrap; of those that do nobody asks.
Ranges == {r \in (0 .. 30) \X (0 .. 30) : r[1] + r[2] < WordSize}
BytesIn(addr, size) == {a \in Addresses : addr <= a /\ a < addr + size}
Sectors(addr, size) == UNION {ErasedWith(a) : a \in BytesIn(addr, size)}

\* A driver's operation on a node that has the lines held in the cache alone:
\* data in the flash is in the cache or, as far as the core can tell, lost.
Holding(node, size, held, flash) ==
  [node EXCEPT !.held = held, !.lost = IF flash THEN (1 .. size) \ held ELSE {}]
Outcome(node, steps, size, held, flash) ==
  Final(Given(size, flash), Holding(node, size, held, flash), steps)

\* An erase from the start of a sector leaves every sector it reaches into
\* erased and the others alone; from inside a sector it may stop one short.
EraseDoes(addr, size) ==
  LET cells == Outcome(Used, EraseSteps(addr, size), size, {}, FALSE).cells
  IN  \A a \in Addresses :
        /\ a \notin Sectors(addr, size) => cells[a] = Used.cells[a]
        /\ a \in Sectors(addr, size) /\ addr % get_sector_size = 0 => cells[a] = AllOnes

\* A write to erased bytes stores the first page's bytes as given, and a later
\* page's as memory has them: as given where the cache had nothing more, since
\* the end of the first page drops the cache.  The other bytes stay.
WriteDoes(addr, size) ==
  \A held \in HeldLines(size) :
    Outcome(Blank, WriteSteps(addr, size), size, held, FALSE).cells =
      [a \in Addresses |->
         LET i == (a - addr) + 1
         IN  IF a \notin BytesIn(addr, size) THEN AllOnes
             ELSE IF i > PageChunk(addr, size) /\ i \in held THEN Former(size)[i]
             ELSE Data(size)[i]]

\* Data in the flash can only be what the cache has, and of one page: then it
\* is stored as given, and else the node stops.
WriteFromFlashDoes(addr, size) ==
  \A held \in HeldLines(size) :
    LET written == Outcome(Blank, WriteSteps(addr, size), size, held, TRUE)
    IN  /\ written.stopped <=> PageChunk(addr, size) < size \/ ~(1 .. size \subseteq held)
        /\ ~written.stopped => read(written, addr, size) = Data(size)

\* Every operation drops all that the cache alone has, not only of the data.
DropsWhatIsHeld(addr, size) ==
  \A held \in HeldLines(size), steps \in {EraseSteps(addr, size), WriteSteps(addr, size), ReadSteps} :
    Outcome(Used, steps, size, held, FALSE).lost = held

OperationsDo ==
  \A r \in Ranges :
    LET addr == r[1]  size == r[2]
    IN  /\ Accepts("erase", addr, size) <=> addr + size <= get_total_size
        /\ Accepts("erase", addr, size) => EraseDoes(addr, size)
        /\ Accepts("write", addr, size) =>
             /\ WriteDoes(addr, size)
             /\ WriteFromFlashDoes(addr, size)
             /\ DropsWhatIsHeld(addr, size)

\* While interrupts are on, the code of their handlers is there to be run: the
\* flash is mapped and no cache line is stale, after every step of every
\* operation, and the chip is not busy if the delays suffice.  That, and that
\* no byte elsewhere changes, is so whichever command the chip misses, however
\* slow it is and wherever the data is.
AlwaysRunnable ==
  \A addr \in {0, 3, 8}, size \in {1, 7, 9}, flash \in BOOLEAN :
    LET Safe(steps, allowed) ==
          \A missed \in 0 .. Len(steps), slow \in {{}, DOMAIN steps}, held \in {{}, 0 .. size} :
            LET states == Through(Given(size, flash), Holding(Used, size, held, flash), steps, {missed}, slow)
            IN  \A node \in {states[i] : i \in DOMAIN states} :
                  /\ node.irq => Runnable(node) /\ (DelaysSuffice(steps, slow) => ~node.busy)
                  /\ \A a \in Addresses \ allowed : node.cells[a] = Used.cells[a]
    IN  /\ Safe(EraseSteps(addr, size), Sectors(addr, size))
        /\ Safe(WriteSteps(addr, size), BytesIn(addr, size))

\* What a caller of the driver may take from it (Stm32ExtMemFlash.cpp).  It
\* touches no other byte of the flash, and no interrupt handler ever finds the
\* flash it runs from unmapped or its cache stale, nor, if the delays suffice,
\* the chip busy.  It stores what it is given where memory has that too, and
\* whatever else only the cache has is lost with every operation.
FlashDriverStores == OperationsDo /\ AlwaysRunnable

\* Whenever the application runs it may call the driver's erase, write and
\* read (Stm32ExtMemFlash.cpp), and they do what it may take from them.
FlashHolds == bpc = "off" => FlashDriverStores
=============================================================================
