# Einherjar in TLA+

Einherjar is a small single-processor x86 kernel in C that boots into a
colorForth-style block editor: an initial RAM disk of 1 KB blocks of pre-parsed
words, an editor thread that shows a block and takes keys, and an interpreter
that runs the block's words.  Underneath are a preemptive round-robin scheduler,
a first-fit heap, a console ring buffer filled by the keyboard interrupt, and
interrupt dispatch through the 8259 PICs.  Paging is never turned on and
everything runs in ring 0.

This directory holds TLA+ modules translated from that source, TLC
configurations that check them on small instances, and proofs for TLAPS.

## 1. Inventory

| component | source (under `src/kernel/`) | state | operations |
|---|---|---|---|
| threads and scheduler | `threading/*.c` | `kernel_threads`, `ready_threads_queue`, `g_current_thread`, `thr->state` | `threading_setup`, `thread_create`, `scheduler_setup`, `scheduler_set_ready`, `schedule` |
| tail queues | `lib/queue.h` | heads and links | `TAILQ_INIT`, `INSERT_TAIL`, `REMOVE`, `FOREACH` |
| start-up | `arch/x86-pc/startup.c` | - | `roentgenium_main`: set-up, `sti`, the editor thread, then the `hlt` loop of `multiboot.asm` |
| console | `io/console.c` | a ring buffer, two indices, a mode | `console_setup`, `console_read`, `console_add_character` |
| keyboard | `arch/x86-pc/io/keyboard.c` | - | `keyboard_interrupt_handler` |
| physical memory | `memory/physical-memory.c` | two lists of ranges, the address `heap` of the next descriptor | `physical_memory_setup`, `heap_alloc`, `heap_free` |
| timer | `arch/x86-pc/timer/pit.c` | - | `timer_interrupt_handler` calls `schedule` |
| interrupt dispatch | `arch/x86/interrupts/{irq,pic,idt}.c`, `irq-stubs.asm`, `irq.h` | masks of the PICs, gates of the IDT, table of handlers, interrupt flag | `x86_irq_setup`, `x86_irq_set_routine`, the stubs, `X86_IRQs_DISABLE/ENABLE` |
| exceptions | `arch/x86/interrupts/isr.c` | - | print and `hlt` |
| contexts of threads | `arch/x86/threading/*` | saved registers on each stack | `cpu_kernel_context_create`, `cpu_context_switch` |
| segments | `arch/x86/mmu/gdt.c` | a constant table | `gdt_setup` |
| screen | `arch/x86-pc/io/vga.c` | 80x25 cells, a position in two bytes, attribute | `vga_display_character`, `vga_clear`, `vga_scroll_up`, cursor functions |
| block editor | `colorforth/editor.c` | current block, mode, the word being typed | `editor`, `handle_input`, `do_cmd`, `display_block`, `pack`, `unpack` |
| colorForth interpreter | `colorforth/compiler.c` | a stack, two dictionaries, the code pointer | `dispatch_word`, `run_block`, `lookup_word`, the built-in words |
| library | `lib/libc.c` | - | strings, formatting, `malloc` = `heap_alloc` |
| host tools | `src/tools/` | - | `blocks_converter.py tocf` makes the disk from a text, `cf2html.c` lists it |
| boot loader interface, test suite | `bootstrap/`, `test-suite/` | - | - |

How they interact:

* The timer interrupt calls `schedule()`, which changes the same links as the
  boot code inside `scheduler_set_ready()`.
* The keyboard interrupt writes the ring buffer that the editor thread polls in
  `console_read()`.
* The stubs in `irq-stubs.asm` acknowledge an interrupt, call the routine of the
  handler table, and the timer's routine may come back on another stack.
* `thread_create()` allocates from the heap; so do the set-up of the
  console, of the interpreter and of the editor's arguments.
* The editor calls the interpreter on the words of a command and on the blocks
  it loads. Nothing writes a block: what is typed outside of commands is only shown.
* The editor and the interpreter draw through `printf()` and `vga.c`, or store to the
  video memory themselves (`erase_stack`, `command_prompt_erase`).
* The disk is made on the host: the converter packs words and numbers into cells, and
  `display_word()` has to make the author's words of them again.

What makes it hard: one processor but interrupts between any two stores; one pair
of links per thread for two queues; a scheduler that leaves the running thread
on the ready queue and inserts it again on every tick; a ring buffer with no
test for "full"; allocation by cutting ranges whose descriptors are themselves
cut out of nowhere; interpreter recursion through blocks.


### What makes each part correct

* Threads: exactly one RUNNING thread, no assertion fails, no thread is dropped
  from or doubled on the queue, turns go round, every ready thread runs.
* Console: keys in order and never twice; nothing lost while the keyboard is less
  than a buffer ahead.
* Heap: blocks cut from one piece of memory stay apart, cover it, carry the right
  addresses and are listed once; no address is in two live blocks (which fails, see the
  findings).
* Interrupts: frames do not pile up, critical sections exclude each other, the
  interrupt flag comes back, a line that is open has a gate, the timer is served.
* Editor and interpreter: what is typed and shown is what is run; names survive
  packing; commands end.
* Screen: every write is inside the page unless the cursor was led off it; the page
  shows the text that was written, the stack's line the stack, the prompt is empty.
* Host tools: each block of the text is in its own place on the disk, each entry in the
  list for the browser.

`PROJECT.json` lists the hazards line by line, with the properties that watch each of them,
or the reason why none does.

## 2. Modules

| module | models | composes |
|---|---|---|
| `TailQueue` | the macros of `queue.h` on links, where `tqe_prev` and `tqh_last` are addresses of `next` fields | - |
| `Scheduler` | boot code and `schedule()`; one step per store where interrupts are on | `TailQueue`; implements `RoundRobin` |
| `RoundRobin` | abstract: a first-come first-served line | - |
| `KeyStream` | abstract: keys come out as they went in | - |
| `Console` | key presses, and `console_read()` access by access | implements `KeyStream` |
| `Allocator` | abstract: a block is part of an arena, and two live blocks share an address only where two arenas do | - |
| `Heap` | `physical_memory_setup()` (as `Init`), `heap_alloc()`, `heap_free()` | implements `Allocator` |
| `Interrupts` | PIC, gates, wrappers, critical sections, context switch | - |
| `Words` | `pack()`, `unpack()`, `is_number()`, `atoi()`, the fields of a cell | - |
| `Forth` | `dispatch_word()`, `run_block()`, built-in words, a cell at a time | `Words` |
| `Editor` | `handle_input()` and `do_cmd()` over the interpreter | `Forth` |
| `Meaning` | reference: commands evaluated in one piece from what is spelled, by recursive functions on the number of open blocks, the number of blocks left and the cells left | `Editor` |
| `Screen` | the operations of `vga.c` on the page and the position | - |
| `Printing` | `print_hex()`, `print_dec()`, `itoa()`, and the numerals they stand for | `Words` |
| `Converter` | `blocks_converter.py` from text to cells, `cf2html.c` from cells to a page | `Words` |
| `Display` | what the editor and the interpreter draw, key by key and command by command, on a disk the converter made | `Editor`, `Screen`, `Printing`, `Converter` |
| `...Proofs` | theorems about the module they extend | |
| `MC...` | values for TLC | |

State and actions keep the names of the code where they can. How they correspond:

* **Scheduler.** `links` holds the `next` pair of every thread and the two heads;
  kernel_threads and the ready queue share the pair, as in `struct thread`. The boot
  code has a `pc`, one label per store of the unguarded `TAILQ_INSERT_TAIL` of
  `scheduler_set_ready()`; what runs with interrupts off is one step. `Tick` is a
  whole timer interrupt. A failed `assert` sets `halted`.
* **Console.** Slots hold the number of the key press, 0 for the initial zeroes;
  the reader's steps are its accesses to the buffer and the indices.
* **Heap.** A range descriptor has, besides base and size, the arena it was cut from
  and its offset there; `Apart` and `NothingLost` are about those, and `Addressed` ties them to
  the 32-bit base. `Allocator` knows addresses only: a block is a base and a size. The arenas
  that `physical_memory_setup()` begins with overlap (finding *heap_overlap*), so `Allocator`
  does not promise that live blocks are disjoint. `Leftovers` are the values `r2->base_address = r2->base_address`
  (physical-memory.c:50) may find in memory.
* **Interrupts.** `frames[t]` are the interrupts on the stack of thread t with the
  point the wrapper or handler is at; `ctx[t]` is IF in its saved eflags. Which
  thread `schedule()` takes is left open here: `Scheduler` has the queues.
* **Forth, Editor.** A letter is its index in `code`; a name is its 28 bits. The C
  stack of nested `load` and `loads` is `frames`. The interpreter has no checks, so
  where it would leave the stack array or the disk, or trap in a division, the model
  stops (`broken`). `CellBits` keeps cells and additions at their width. A key without a
  letter in the code (Enter, backspace, Tab, Shift, `=`, ...) is `NoLetter` in the word; what `pack()`
  makes of it depends on an address, so a command with one is `broken` too.
* **Screen.** A character is a number, and a stored zero and a blank are one; colors are
  left out. `led` records that `vga_update_position()` has taken the position off the page
  and nobody has set it since, `off` a store outside of the page that was not led off.
* **Converter.** A text is a sequence of blocks of entries (function, number base,
  word or number); a cell is a color with 28 bits of name, or with a number of
  `CellBits` bits. `NameOf`, `HexBit` and `NumberOf` read a cell as the kernel does, which
  does not know which of the two it was.
* **Display.** First the text is written, entry by entry; `Boot` converts it and shows
  the first block; from then on each action is a key of `Editor`, or a step of `Forth`, with
  what it draws. Fixed wording is one character each (`StackLabel`, `ErrorText`); the
  lines 18, 21, 22 and 23 are counted from the end of the screen.

## 3. Runs

| run | specification | shows |
|---|---|---|
| threads_quiet | `FairQuietSpec` | `NoAssertionFails`, `ReadyQueueComplete`, `TurnsInOrder`, `EveryThreadRuns`, `ImplementsRoundRobin` |
| threads_anytick | `Spec` | `TypeOK`, `OneRunning`, `NoAssertionFails` with a tick between any two stores, later creations made with interrupts off |
| threads_earlytick | `FairSpec` | violated: `EveryThreadRuns` |
| console_overrun | `Spec` | `TypeOK`, `TestedIsCopied`, `KeysInOrder`, `LossInLaps` |
| console_paced | `PacedSpec` | `ImplementsKeyStream` |
| console_full | `Spec` | violated: `EmptyMeansAllRead` |
| heap | `Spec` | `TypeOK`, `Apart`, `NothingLost`, `Addressed`, `ListedOnce`, `ImplementsAllocator` |
| heap_bios | `Spec` | violated: `BiosPreserved` |
| heap_overlap | `Spec` | violated: `NoAddressTwice` |
| interrupts | `FairSpec` | `TypeOK`, `OneFrame`, `NotPreemptedInside`, `Interruptible`, `ContextFollowsCurrent`, `NoMissingGate`, `TimerServed` |
| colorforth | `MSpec` | `TypeOK`, `RoundTrip`, `Spelled`, `CommandsMean`, `CommandEnds` |
| screen | `DSpec` | `PageKept`, `CursorShown`, `WordShown`, `HtmlListsText`, `BlockShown`, `StackShown`, `PromptReady` |

### Findings

* *threads_earlytick*: a timer interrupt after the `sti` of startup.c:79 and before
  the editor thread is inserted, or between two stores of the insertion, leaves a
  READY thread outside the cycle `schedule()` walks. It never runs.
* *console_full*: a buffer that was filled exactly once looks empty ("No character
  available", console.c:65) although no key of it was read.
* *heap_bios*: the range commented "Used : BIOS" is on the free list and is handed
  out, against physical-memory.h:53.
* *heap_overlap*: `r6->size` is the address `&__kernel_end` (physical-memory.c:87), so the
  kernel's range goes on over r5, r7 and r8, and two live blocks share an address. The memory
  test calls that "Page overwritten" (physical-memory-test.c:61). Five allocations do it in
  the model; r2 begins below the BIOS there, so it has no part in it.

Met while modelling, and not runs of their own:

* A routine set to NULL ("it's disabled", irq.h:44) takes the gate away and leaves the line
  open, as pic.c:51 swaps the arguments of `outb`; the next interrupt of the line would halt
  the machine. No caller sets a routine to NULL, and the model has no such step.
* `r2->base_address` is assigned to itself (physical-memory.c:50): the first free range begins
  wherever the memory says, and may wrap around all others. What the heap promises within
  an arena holds for any such value, and the proofs are for all of them.
* `kernel_threads`, "the global list" (thread.c:80), shares its links with the ready queue:
  walking it after the insertion of scheduler.c:34 does not find the threads added to
  it. Nothing walks it today, but its insertions store through these links.
* A line of the stack that is longer than a line of the screen scrolls the page with the
  prompt; its rest on line 24 is never erased, as `erase_stack()` clears one cell of that
  line where editor.c:487 says the area. `StackShown` and `PromptReady` hold up to there.
* "Block: n" stands on the stack's line: the next `dot_s()` erases it.
* The zeroes that fill a block are extensions without letters: each steps left, and
  where the position is at the start of a line it becomes column 255, three lines
  below; the blank stored there is seen only if text stands there.
* `itoa()` writes garbage for negative numbers in base 16 and for the least number,
  `print_dec()` for the least number; `print_hex()` and `print_dec()` of cf2html.c return before
  their loops (lines 65 and 88 have no braces), so its page shows no number but 0.
* A variable's name that uses all 28 bits has its last bit taken for the base of the value,
  and of a longer name the second cell is shown as the value.
* Of a `compiler_feedback` that takes two cells the first is not shown and the second is: the
  end of a word that nothing else is seen of (editor.c:351).
* Backspace erases the letter on the screen and appends a character to the word.
* The right arrow or a tab may put the position on column 80 (vga.c:90, 140). The first letter
  keyed there goes to the first cell of the next line, and the second on top of it.
  `WordShown` is about words that begin on the page.
* The output of a command has the lines 18 to 20. A block with more output writes over the
  prompt's lines, and what it wrote is still there afterwards: only a command erases them,
  before it runs. `PromptReady` is about blocks that stay above the prompt.
* Of a word of more than 28 bits the end is lost under the color: "loadsr", whose 29th bit is
  the only 1 in the code of its 'r', is found as "loads" (compiler.c:184). `Spelled` and
  `RoundTrip` are about words that fit.
* The methods of blocks_converter.py from line 217 on have lost their indentation, so
  `totext` ends with an error in every run.

### Bounds, and why they are enough

* Threads: the boot thread and three others (the editor, and the two of the test
  suite). Two threads already make every order of the queue's stores; three let a
  rotation pass over a thread that is being inserted.
* Console: a buffer of three slots (the smallest whose "one free", "full" and "lapped"
  differ), ten key presses, that is three laps; reads of one and two characters
  and new lines at two presses. `Length` and `MaxKeys` are free in the proofs.
* Heap: 32 addresses, at most eleven descriptors and three blocks in use: enough
  for a range to be cut twice, released, and met by an exact fit, and for blocks of two
  overlapping arenas to be live at once. *heap_overlap* has five blocks in use and one leftover.
  `MaxMade` bounds the descriptors, which the code does not.
* Interrupts: three threads, two of which nest sections two deep (`MaxDepth`), both
  lines that have a handler.
* colorforth: three blocks of seven cells, a stack of three, cells of ten bits. Numbers
  0, 2, 22 (which the five tag bits turn into another number) and the words load,
  loads, `.`, `/` and an unknown one are typed, in any order and any number of times, with
  keys without a letter anywhere (one after the other). Block 0 loads block 2 through
  `loads`, block 1 is a shadow block with a big number whose data cell is run, so
  commands reach three levels of calls, overflow and underflow of the stack, blocks that
  are not on the disk and division by zero. Words are prefixes of the vocabulary: at most
  32 bits, letters that need no Shift, as the driver knows none. `Meaning` follows commands
  through `Nesting` = 3 open blocks, as deep as these go; in the proof it is any number.
* screen: nine lines of ten columns, so that a block of ten cells takes several lines and
  the lines of output, prompt, errors and stack are the code's, counted from below. `Byte`
  is 33, so that one step left of column 0 leads three lines down as 255 = 3 * 80 + 15
  does. Texts on the host have up to two entries (`MaxEntries`) of eighteen kinds
  (`Items`: each color, words that need a second cell with and without a letter that
  shrinks, variables with their value, both bases, negative numbers), and every text
  that is a beginning of the text `Source` of two blocks, so that block 1 is where block 0
  leaves it. The text is booted from at any time; the keys other than the page keys
  are hit on `Source` itself. Two keys (`MaxKeys`), letters not counted, from one page key
  to the next, any number of page keys and any number of steps of the interpreter. The
  page is edited while the stack is empty, which leaves out nothing of the page and the
  cursor, as neither depends on the stack.
  A tab that ends on the column behind the last one does not occur at these sizes; that the page
  is kept then too is what `DisplayKept` and `ScreenSafe` prove, for every size. Of words that
  begin there, and of an output that is longer than its lines, `WordShown` and `PromptReady`
  say nothing at any size.
* What `BlockShown` asks of the text, as the tools do not: the blocks fit their cells and a
  variable's name its cell (`Fitting`); the text fits above the prompt, the numbers have the
  bits of their cells, and a word that goes on in a second cell stands on one line and is no
  `compiler_feedback` (`Readable`).

### Fairness

* `WF(Tick)`, `WF(QuietTick)`: the PIT is periodic. `SF(BootStep)`: the boot thread executes an
  instruction whenever it has the processor for a while, which the round robin gives
  it again and again.
* `WF(Read)`: the editor thread is scheduled again and again; the keyboard has no
  fairness, nobody has to press a key.
* `Interrupts!FairSpec`: the timer requests again; handlers go on; a pending request
  is looked at at every instruction boundary, so one that is offered again and again
  while IF is set is taken (`SF(Deliver)`); a thread that has the processor again and
  again gets to its `cli` and its `X86_IRQs_ENABLE`, and an outermost section ends.
* `WF(Go)`: as for the reader; the keys have no fairness.
* `DSpec` has none: it is only asked for safety.

Deadlock is checked except where the system may stop: a failed assertion, a missing
gate, a trap in the interpreter (`broken`), the bounds on keys, texts and descriptors.

`QuietSpec` is an assumption about time: no timer interrupt between `sti` and
the insertion of the first thread, nor inside a `thread_create()` that runs with
interrupts on. The boot code has a timer period of 10 ms to get there
(`x86_pit_set_frequency(100)`); nothing in the code enforces it, and
*threads_earlytick* shows what happens otherwise. `PacedSpec` likewise assumes
that the typist is less than a buffer ahead.

## 4. Proofs

Every theorem holds for all values of the constants that satisfy the named `ASSUME`
of its module.

| module | theorems | inductive invariant |
|---|---|---|
| `SchedulerProofs` | `TypeCorrect`, `OneThreadRunning` (of `Spec`); `AssertionsHold`, `TurnsAreInOrder` (of `QuietSpec`) | `Inv`: types, `MadeInv` (what was made, at which label), `StateInv` (states by label), `LinksInv` (the links, address by address) |
| `ConsoleProofs` | `TypeCorrect`, `KeysStayInOrder`, `LossIsInLaps`, `TestedThenCopied` (of `Spec`); `NothingIsLost` (steps of `PacedSpec` are steps of `KeyStream`) | `Inv`: which press each slot may hold, relative to the read index and the lap; `WholeLaps` adds that reader, writer and the character loaded are whole laps apart, `PaceInv` the distance |
| `HeapProofs` | `TypeCorrect`, `RangesApart`, `NoMemoryLost`, `EachListedOnce`, `PlacesAreAddresses`, `HeapIsAllocator` | `Inv`: `TypeOK`, `Apart`, `NothingLost`, `ListedOnce`, and a used size is a size that was asked for; `Placed`: each base is its place in the arena modulo 2^32, from which follow `Inside` and `Disjoint`: the addresses of a range are in its arena, and of one arena no two ranges share one |
| `InterruptsProofs` | `TypeCorrect`, `FramesDoNotPileUp`, `SectionsAreKept`, `ThreadsAreInterruptible`, `CurrentHasTheStack`, `GatesAreThere` | `Inv`: `TypeOK`, `CodeInv`, `EarlyInv`, `OwnInv` (flags against IF for the thread that has the processor), `HandlerInv`, `AwayInv` (a thread that is away was left inside the handler at depth 0), `GateInv` |
| `EditorProofs` | `EditorTypes`, `EditorRoundTrip`, `EditorSpelled` (of `Spec`) | `TypeInv`: the types with all fields of a call, as `load` takes the number of a block from the stack, and the disk as it was loaded |
| `MeaningProofs` | `CommandsComeToTheirMeaning` (of `MSpec`) | `MeaningInv`: the types; a typed word with letters only fits its cell; `Sound`: what the data stack has now, led through the open calls from the innermost to the outermost (`Comes`), is what the command means, and the interpreter is broken only where it means nothing |
| `DisplayProofs` | `ScreenSafe` (of `ScreenSpec`, any operations of `vga.c` in any order) | `ScreenInv`: the shape of the state, that an unled position is on the page or on the column behind it, and that no store was off |
| `DisplayProofs` | `DisplayKept`, `DisplayCursor`, `DisplayWordInFront`, `DisplayPromptReady`, `DisplayStackShown`, `DisplayHtmlLists` (of `DSpec`) | `DrawInv`: the page is kept and, where a key is waited for, the cursor blinks at the position; `WordInv`: the letters in front of it; `RunInv`: while a block runs, the prompt's lines are empty as long as the output is above them; `PageInv`: the stack is in its array, and the page is of a block of the disk, which has as many as the text; `Meant`: every block of the text is one as it is meant |
| `BlockProofs` | `DisplayBlockShown` (of `DSpec`) | `DrawInv`, `PageInv` and `Meant`, with `DiskInv`: the cells in the kernel are the converter's |

`SchedulerProofs` also has `NoThreadIsDropped` and `QueueIsRoundRobin` (of `QuietSpec`, from the
same `Inv`): the walk over the queue from the running thread meets every READY thread and comes
round, and each step is one of `RoundRobin`, whose line is what the walk meets.

How recursion is dealt with: the first lemmas of `EditorProofs` state induction over the naturals for a set instead
of a predicate, and that a function which follows a recursive equation exists; `CHOOSE` is opened
once per recursive function of the model, and from then on each fact about a word, a
walk or a line of characters is one about its first n steps, for each n.

Why the invariants need strengthening:

* `schedule()` inserts the running thread without removing it, so `TAILQ_INSERT_TAIL`
  runs on an element that is already on the queue. That the result is a ring depends on
  exactly which stale `next` each store overwrites; `LinksInv` says for every thread,
  in its distance from the running one, where its `next` and `tqe_prev` point.
  `TurnsInOrder` and the assertions follow from it.
* That keys come in order after an overrun needs to know the press in every slot
  modulo laps, not only in the slot that is read.
* Two cut ranges stay apart because the remaining range shrinks by exactly what the
  new one gets; that this also covers the arena needs both facts at once. `HeapIsAllocator` is
  about addresses: it needs that places of one arena, which is smaller than a word, are different
  addresses (`LessThanAWord`), also where the arena wraps around, and that the descriptors of
  the arenas keep their bases (`StartStays`).
* Critical sections nest and threads are switched inside the handler; what a thread
  finds on its return is only known from the flags it left with, hence `AwayInv`.
* A tab may leave the position on the column behind the last one, and from there a
  character or a new line has to come back: `PageKept` without that column is not
  inductive. Why the sum of a line and a column is a cell is a lemma of its own
  (`AddressIsCell`), as the product of two parameters is nonlinear.

* `unpack()` has no lengths to go by: that it finds the letters of any word again needs, for each
  letter, that the next 4, 5 or 7 bits are its code and no other, and that the zeroes
  at the end of the cell, where it stops, are no part of a code (no code is all zero).
  That the dictionary finds what is spelled follows from it and from the eight names.
* What is on the screen depends on everything written before. `LetterPlaced` is what one letter
  does, `LettersRun` what n of them do: either they stand one after the other from
  where they began, or they have reached the last line. The lines of the prompt are safe from the
  output (`SaidFits`, a number has at most `CellBits + 2` characters), from the stack as long as
  its text is shorter than a line (`DotSDraws`), and from the block's number.
* `StackShown` compares `itoa()`, which divides from the last digit on, with the numeral
  whose digits are each taken from its own position: the i-th quotient is the number
  divided by the i-th power of the base (`QuotientIs`), so the number of steps until it is zero is
  the number of places (`HowManyDigits`), and each remainder is a digit (`DigitsAgree`).
* `CommandsMean` compares a machine that has one code pointer and saves it on the C stack with an
  evaluation block within block. In the middle of a command nothing of the meaning is in the
  state, so `Comes` says what is still owed: for each open call how many more blocks may
  be opened, what its rest makes of a stack, and that the last of these results is the meaning.
  A step of `run_block()` moves one cell from the rest to the stack; `load` and `loads` push
  a call whose meaning is, by the recursive equations (`OneFunction`, `RecursionNat`,
  `RecursionDown`), that of the block they name; data cells that `run_block()` does dispatch
  are harmless by `MeaningAssumption`.
* `HtmlListsText` needs to know for every cell of a disk which entry of the text it comes
  from. The parts of a word make up the word and none loses a letter (`PartsOfWord`);
  the converter's flag `in_variable`, which is set in whatever block was before, is true exactly
  behind a variable of a text as it is meant (`InVariableIs`); flattened and padded blocks
  are cut where `cf2html.c` cuts them (`FlattenPlace`, `OnDisk`); and each round of its loop takes
  the cells of one part and leaves the page with the elements of the entries before
  (`HtmlRoundIs`, `WordRounds`, `EntriesCome`), the padding nothing (`RestStays`).
* `BlockShown` goes from the text to the cells and from there to the places of the characters.
  The cells are `Laid` entry by entry as for the list (`BlockLaid`). A numeral that is written
  from the bits of a cell, the four high ones first or by the powers of ten, is the number's
  (`PrintHexMeant`, `PrintDecMeant`). `Printed` is the induction over the entries: the loop is at the
  cells of the next one, and the page has the characters of those before and nothing else
  (`Reads`). One word of several cells is in between not what the text says: its blank is put
  after each part and taken back for the next one (`Paused`, `BackOver`), which is why it has to stay
  on its line. The cells that are not used step left and put a blank, at the start of a line
  by way of column 255 (`IdleStays`, `BlankFromLeft`): over a blank, as an entry ends with one, or
  begins a line (`Ends`). What is drawn afterwards stays below (`DrawnAbove`).

`DisplayAssumption` asks for room, and the screen of the code has it: 80 columns and 25 lines for words
of 32 letters, 240 characters for the output of a number of 11, and 14 for "Block: n" and a new
line behind column 65; the 42 cells of the stack can be counted in a cell of 32 bits. What a text
is made of is `WellFormed`: a word or a number after each function, and behind each variable the
`compileword` with its value, as the converter's `in_variable` takes for granted.
`PrintingAssumption`: the bits of a cell are taken by four. `MeaningAssumption` is about the disk and
the words typed: a data cell that is run is not tagged as a word or a number, and words fit 28 bits.

Only model-checked: all liveness (`EveryThreadRuns`, `TimerServed`, `CommandEnds`, the fair
parts of `ImplementsRoundRobin` and `ImplementsKeyStream`), which is out of the
prover's reach, as is `ENABLED`. Every invariant and every action property of a passing run
is a theorem.

## 5. Not modelled, and why

* Segments, the boot loader interface, programming of the PIT: straight-line set-up
  of constants. The text of exception messages: layout.
* `console_write`, `console_set_mode`, the macros of `queue.h` without callers: nothing
  in the kernel uses them.
* Colors on the screen, and the keys that only change them. The capital letters of
  `textcapitalized` and `textallcaps`: the kernel shows them small.
* Words longer than the buffer or than 32 bits, blocks that load themselves: outside the
  model's inputs, listed as hazards. What `pack()` makes of a character that is not in the code.
* `x86_irq_set_routine()` with NULL: it has no caller.
* `blocks_converter.py totext` (it fails in every run), `pack.py` and `unpack.py` (the same
  functions as in editor.c, tried from the command line), the grammar of the text files.
* The test suite, but for the two threads of `test_kernel_threads()`: its calls are the
  operations above.

## 6. Plan

1. Done: scheduler and queues, console, heap, interrupts, interpreter and editor; the
   screen, what is drawn on it, and the disk from its text on.
2. Console and scheduler composed: a reader that polls with the processor taken away.
3. Done: every safety property of the runs is proved.
