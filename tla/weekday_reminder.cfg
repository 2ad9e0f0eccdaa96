SPECIFICATION Spec
CONSTANTS
    Contents <- OnWeekdays
    Titles = {t1}
    Due <- DueEarly
    Slots = {1, 2}
    Day = 4
    ServerAhead = 0
    MaxTime = 3
    MaxCommands = 1
    MaxStops = 0
INVARIANTS RecurringRemindersFire
