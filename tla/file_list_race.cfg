\* Two processes, each opening files and exiting, over three file_info blocks.
CONSTANTS
    Procs = {a, b}
    Nodes = {n1, n2, n3}
    Head = Head
    Tail = Tail
SPECIFICATION Spec
INVARIANT CursorNotFreed
\* Every process exits in the end; the system stops there.
CHECK_DEADLOCK FALSE
