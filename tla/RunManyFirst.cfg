SPECIFICATION ManySpec
CONSTANTS
    Callers = {1, 2, 3}
    MaxUsd = 6
    Estimates = {1}
    Overrun = 0
    Concurrencies = {2}
PROPERTY FirstExceptionCancels
