----------------------------- MODULE MCExecutor -----------------------------
(* The two tasks main() joins: ft240_reader_task and usart1_reader_task.   *)
EXTENDS Executor

MCPins == {"Ft240xCanRead", "Ft240xCanWrite"}
MCQueues == {"Usart1CanRead"}
MCTimers == {"Timer"}
MCInstants == {"BufferRequest", "Usart1CanWrite"}

MCScript ==
    <<  << "BufferRequest", "BufferRequest", "Usart1CanWrite", "Timer",
           "Ft240xCanRead", "Usart1CanWrite" >>,
        << "Ft240xCanWrite", "BufferRequest", "BufferRequest",
           "Usart1CanRead", "Ft240xCanWrite" >> >>
MCLoopAt == <<5, 4>>
=============================================================================
