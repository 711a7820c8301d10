\* Two names, one of them with a percent sign, and an index, in paths of up
\* to two keys.
CONSTANTS
    plain = plain  percent = percent  index = index
    Names = {plain, percent}
    Indexes = {index}
    Percents = {percent}
    Paths <- UpToTwo
SPECIFICATION Spec
INVARIANT
    PercentsAreEscaped
